---- MODULE Spec2Model ----
(***************************************************************************)
(* StonePass: ChaCha primitive, StoneRNG keystream generator and the       *)
(* password composer, modelled with the machine words scaled down.         *)
(*                                                                         *)
(* u32 is WordBits bits wide and u64 is two u32 halves (2*WordBits bits);  *)
(* all arithmetic wraps at those widths exactly as the C++ does at 32/64.  *)
(***************************************************************************)
EXTENDS Integers, Sequences, FiniteSets, TLC

\* ------------------------------------------------------------------ words

\* scaled width of u32 (the source's is 32); u64 is twice as wide
WordBits == 4

U32Mod == 2 ^ WordBits
U64Mod == U32Mod * U32Mod
\* StoneRNG::max(), UINT64_MAX at the scaled width
U64Max == U64Mod - 1

RECURSIVE XorBits(_, _)
\* bitwise exclusive or of two naturals, bit by bit
XorBits(a, b) ==
    IF a = 0 THEN b
    ELSE IF b = 0 THEN a
    ELSE (((a % 2) + (b % 2)) % 2) + (2 * XorBits(a \div 2, b \div 2))

\* the exclusive or of every pair of u32 values, computed once
XorTable ==
    [a \in 0 .. (U32Mod - 1) |-> [b \in 0 .. (U32Mod - 1) |-> XorBits(a, b)]]

\* operator ^ on two u32
Xor(a, b) == XorTable[a][b]

\* a rotation amount of the 32-bit source, scaled to the model's word width
ScaleRot(r) == ((r * WordBits) \div 32) % WordBits

\* x rotated left by s bits within a u32
RotBy(x, s) == ((x * (2 ^ s)) % U32Mod) + (x \div (2 ^ (WordBits - s)))

\* std::rotl on a u32
rotl(x, r) == RotBy(x, ScaleRot(r))

\* indices of the sixteen u32 words of a Block64
WordIdx == 0 .. 15

ZeroBlock == [i \in WordIdx |-> 0]

\* every value a Block64 can hold, as sixteen u32 words
Block64 == [WordIdx -> 0 .. (U32Mod - 1)]

\* ---------------------------------------------------------------- ChaCha

\* "expand 32-byte k", truncated to the model's word width
ChaCha20_constants ==
    <<1634760805 % U32Mod, 857760878 % U32Mod,
      2036477234 % U32Mod, 1797285236 % U32Mod>>

\* a += b (a1 is the sum); d ^= a; d = rotl(d, r)
QR_ad(a1, b, c, d, r) == <<a1, b, c, rotl(Xor(d, a1), r)>>

\* c += d (c1 is the sum); b ^= c; b = rotl(b, r)
QR_cb(a, b, c1, d, r) == <<a, rotl(Xor(b, c1), r), c1, d>>

\* the four lines of the quarter round, on v = <<a, b, c, d>>
QR_line1(v) == QR_ad((v[1] + v[2]) % U32Mod, v[2], v[3], v[4], 16)
QR_line2(v) == QR_cb(v[1], v[2], (v[3] + v[4]) % U32Mod, v[4], 12)
QR_line3(v) == QR_ad((v[1] + v[2]) % U32Mod, v[2], v[3], v[4], 8)
QR_line4(v) == QR_cb(v[1], v[2], (v[3] + v[4]) % U32Mod, v[4], 7)

\* ChaCha quarter round on four words; returns the four new words
QR(a, b, c, d) == QR_line4(QR_line3(QR_line2(QR_line1(<<a, b, c, d>>))))

\* the words i, j, k, l of x replaced by q
PutWords(x, i, j, k, l, q) ==
    [x EXCEPT ![i] = q[1], ![j] = q[2], ![k] = q[3], ![l] = q[4]]

\* QR applied in place to the words i, j, k, l of x
QRAt(x, i, j, k, l) == PutWords(x, i, j, k, l, QR(x[i], x[j], x[k], x[l]))

\* the four column rounds
ColumnRounds(x) ==
    QRAt(QRAt(QRAt(QRAt(x, 0, 4, 8, 12), 1, 5, 9, 13), 2, 6, 10, 14),
         3, 7, 11, 15)

\* the four diagonal rounds
DiagonalRounds(x) ==
    QRAt(QRAt(QRAt(QRAt(x, 0, 5, 10, 15), 1, 6, 11, 12), 2, 7, 8, 13),
         3, 4, 9, 14)

\* one double round: four column rounds, then four diagonal rounds
DoubleRound[x \in Block64] == DiagonalRounds(ColumnRounds(x))

RECURSIVE Rounds(_, _)
\* r double rounds applied to x
Rounds(x, r) == IF r = 0 THEN x ELSE DoubleRound[Rounds(x, r - 1)]

\* word-wise sum of two blocks
AddBlocks(x, y) == [i \in WordIdx |-> (x[i] + y[i]) % U32Mod]

\* permute_block(out, in): 10 double rounds on a copy, then the input added
Permutation[in \in Block64] == AddBlocks(Rounds(in, 10), in)

permute_block(in) == Permutation[in]

\* the layout with the nonce in words 12-13 and the counter in words 14-15
build_state_transposed(key, nonce, block_counter) ==
    [i \in WordIdx |->
        IF i < 4 THEN ChaCha20_constants[i + 1]
        ELSE IF i < 12 THEN key[i - 4]
        ELSE IF i < 14 THEN nonce[i - 12]
        ELSE IF i = 14 THEN block_counter % U32Mod
        ELSE (block_counter \div U32Mod) % U32Mod]

\* Bernstein layout: constants, key, counter low/high, nonce
build_state(key, nonce, block_counter) ==
    [i \in WordIdx |->
        IF i < 4 THEN ChaCha20_constants[i + 1]
        ELSE IF i < 12 THEN key[i - 4]
        ELSE IF i = 12 THEN block_counter % U32Mod
        ELSE IF i = 13 THEN (block_counter \div U32Mod) % U32Mod
        ELSE nonce[i - 14]]

\* the overload for a 96-bit nonce: constants, key, 32-bit counter, nonce
build_state96(key, nonce, block_counter) ==
    [i \in WordIdx |->
        IF i < 4 THEN ChaCha20_constants[i + 1]
        ELSE IF i < 12 THEN key[i - 4]
        ELSE IF i = 12 THEN block_counter
        ELSE nonce[i - 13]]

\* Block64::u64[i]: little-endian pair of u32 words
U64At(block, i) == block[2 * i] + U32Mod * block[2 * i + 1]

\* -------------------------------------------------------------- StoneRNG

VARIABLES
    rng,        \* the generator: key, nonce, block_counter, buffer, word_index
    alive,      \* a generator object exists (its constructor returned)
    last,       \* what the last operation on the generator did
    exhausted,  \* refill_buffer has raised "key/nonce pair exhausted" on it
    ops,        \* operations performed on the current generator
    entropy,    \* what std::random_device hands out next
    pair,       \* two generators built from the same key, nonce and counter
    uni,        \* the tally of unbiased's outcomes over every raw word
    gp,         \* generate_password: its position, locals and first outcome
    ser,        \* two generator objects and the byte stream between them
    sk,         \* StoneKey: its position, arena and the indices it touched
    sh,         \* a message absorbed by StoneHash chunk by chunk
    bs,         \* build_state applied to a key, a nonce and a counter
    fy,         \* the Fisher-Yates loop under every sequence of choices
    ia,         \* generate_password_interactive: entries, call and echo
    bf,         \* the butterfly loops of StoneKey and the pairs they visit
    cp,         \* a Compressor: the blocks absorbed and what finalize does
    ui          \* the Windows form: focus, buttons and what run_ui returned

\* the variables of the components further down
restVars == <<ser, sk, sh, bs, fy, ia>>

lateVars == <<bf, cp, ui>>

\* std::array<u32, 8> / std::array<u32, 2> filled from the number w
KeyOf(w) == [i \in 0 .. 7 |-> (w + i) % U32Mod]
NonceOf(w) == [i \in 0 .. 1 |-> (w + i) % U32Mod]

\* keys, nonces and entropy values the generator is constructed from
Keys == {KeyOf(0), KeyOf(1)}
Nonces == {NonceOf(0), NonceOf(1)}
EntropySet == 0 .. 1

\* counters within CacheSpan blocks of either end of the counter range
CacheSpan == 40
CachedCounters ==
    {c \in 0 .. U64Max : c <= CacheSpan \/ c >= U64Max - CacheSpan}

\* the members as the class declares them: zero key, nonce, counter and
\* buffer, word_index 8 (buffer exhausted)
FreshRNG ==
    [key |-> [i \in 0 .. 7 |-> 0], nonce |-> [i \in 0 .. 1 |-> 0],
     block_counter |-> 0, buffer |-> ZeroBlock, word_index |-> 8]

\* the outcome of an operation that did not throw / that threw e
Ok(r) == [rng |-> r, err |-> "none"]
Threw(r, e) == [rng |-> r, err |-> e]

\* ++block_counter; if (block_counter == 0) throw
CounterStep(r) ==
    IF r.block_counter = U64Max
    THEN Threw([r EXCEPT !.block_counter = 0], "exhausted")
    ELSE Ok([r EXCEPT !.block_counter = @ + 1])

\* the keystream block of (key, nonce, counter)
BlockOf(k, n, c) == permute_block(build_state(k, n, c))

\* BlockOf for the seeds and the counters the generator actions below use,
\* computed once
KeystreamTable ==
    [k \in Keys |-> [n \in Nonces |-> [c \in CachedCounters |-> BlockOf(k, n, c)]]]

\* ChaCha::permute_block(buffer, ChaCha::build_state(key, nonce, counter))
Keystream(k, n, c) ==
    IF k \in Keys /\ n \in Nonces /\ c \in CachedCounters
    THEN KeystreamTable[k][n][c]
    ELSE BlockOf(k, n, c)

\* generates the block of block_counter into the buffer, resets word_index,
\* increments block_counter and throws when it wraps to 0
refill_buffer(r) ==
    CounterStep([r EXCEPT
        !.buffer = Keystream(r.key, r.nonce, r.block_counter),
        !.word_index = 0])

\* StoneRNG(key, nonce, initial_counter) with the counter parsed from OS
\* entropy, as the default constructor does, instead of initial_counter
StoneRNG_knc_entropy(k, n, c) ==
    refill_buffer([FreshRNG EXCEPT !.key = k, !.nonce = n,
                                   !.block_counter = entropy])

\* StoneRNG(key, nonce, initial_counter)
StoneRNG_knc(k, n, c) ==
    refill_buffer([FreshRNG EXCEPT !.key = k, !.nonce = n, !.block_counter = c])

\* StoneRNG(): key, nonce and initial counter parsed from OS entropy
StoneRNG_default ==
    refill_buffer([FreshRNG EXCEPT !.key = KeyOf(entropy),
                                   !.nonce = NonceOf(entropy),
                                   !.block_counter = entropy])

\* return buffer.u64[word_index++], unless the refill before it threw
TakeWord(f) ==
    IF f.err # "none"
    THEN [rng |-> f.rng, err |-> f.err, val |-> -1]
    ELSE [rng |-> [f.rng EXCEPT !.word_index = @ + 1], err |-> "none",
          val |-> U64At(f.rng.buffer, f.rng.word_index)]

\* operator(): the next 64-bit word of the keystream
next_word(r) ==
    IF r.word_index >= 8 THEN TakeWord(refill_buffer(r)) ELSE TakeWord(Ok(r))

\* value > limit: the word is drawn again
Rejected(value, limit) == value > limit

RECURSIVE RejectLoop(_, _, _)
RECURSIVE RejectStep(_, _, _)
\* while (value > limit), o being the draw just made
RejectStep(o, limit, drawn) ==
    IF o.err # "none"
    THEN [rng |-> o.rng, err |-> o.err, val |-> -1, consumed |-> drawn]
    ELSE IF Rejected(o.val, limit) THEN RejectLoop(o.rng, limit, drawn + 1)
    ELSE [rng |-> o.rng, err |-> "none", val |-> o.val,
          consumed |-> drawn + 1]

\* do { value = (*this)(); } while (value > limit);
RejectLoop(r, limit, drawn) == RejectStep(next_word(r), limit, drawn)

\* hi - lo in u64 arithmetic
Sub64(hi, lo) == (hi - lo + U64Mod) % U64Mod

\* const uint64_t limit = max() - (max() % range)
LimitOf(range) == U64Max - (U64Max % range)

\* lo + (value % range)
Mapped(lo, value, range) == (lo + (value % range)) % U64Mod

\* return lo + (value % range), o being the outcome of the rejection loop
Reduce(o, lo, range, wide) ==
    [rng |-> o.rng, err |-> o.err,
     val |-> IF o.err = "none" THEN Mapped(lo, o.val, range) ELSE -1,
     consumed |-> o.consumed, path |-> "reject", wide |-> wide]

\* return (*this)(), o being that draw
RawWord(o, wide) ==
    [rng |-> o.rng, err |-> o.err, val |-> o.val,
     consumed |-> IF o.err = "none" THEN 1 ELSE 0,
     path |-> "full", wide |-> wide]

\* unbiased(lo, hi) after the swap; range is hi - lo + 1 as the u64
\* arithmetic computes it, wide the same sum without the wrap
UnbiasedOrdered(r, lo, hi) ==
    IF lo = hi
    THEN [rng |-> r, err |-> "none", val |-> lo, consumed |-> 0,
          path |-> "point", wide |-> 1]
    ELSE IF Sub64(hi, lo) = U64Max
    THEN RawWord(next_word(r), Sub64(hi, lo) + 1)
    ELSE Reduce(RejectLoop(r, LimitOf((Sub64(hi, lo) + 1) % U64Mod), 0),
                lo, (Sub64(hi, lo) + 1) % U64Mod, Sub64(hi, lo) + 1)

\* unbiased without "if (lo > hi) std::swap(lo, hi)"
unbiased_noswap(r, lo, hi) == UnbiasedOrdered(r, lo, hi)

\* unbiased(lo, hi): if (lo > hi) std::swap(lo, hi)
unbiased(r, lo, hi) ==
    IF lo > hi THEN UnbiasedOrdered(r, hi, lo) ELSE UnbiasedOrdered(r, lo, hi)

\* reseed(key, nonce)
reseed(r, k, n) ==
    refill_buffer([r EXCEPT !.key = k, !.nonce = n, !.block_counter = 0])

\* word_index = remainder, after the refill f (which may have thrown)
SetIndex(f, remainder) ==
    IF f.err # "none" THEN f
    ELSE Ok([f.rng EXCEPT !.word_index = remainder])

\* discard(n) from "n -= remaining" on: m is what is left of n, r has
\* word_index 8
DiscardBlocks(r, full_blocks, remainder) ==
    IF full_blocks > 0 /\ r.block_counter > U64Max - full_blocks
    THEN Threw(r, "overflow")
    ELSE IF remainder # 0
    THEN SetIndex(refill_buffer([r EXCEPT !.block_counter = @ + full_blocks]),
                  remainder)
    ELSE Ok([r EXCEPT !.block_counter = @ + full_blocks])

\* discard without "n -= remaining"
discard_keep_n(r, n) ==
    IF n = 0 THEN Ok(r)
    ELSE IF n < 8 - r.word_index
    THEN Ok([r EXCEPT !.word_index = @ + n])
    ELSE DiscardBlocks([r EXCEPT !.word_index = 8], n \div 8, n % 8)

\* discard(n)
discard(r, n) ==
    IF n = 0 THEN Ok(r)
    ELSE IF n < 8 - r.word_index
    THEN Ok([r EXCEPT !.word_index = @ + n])
    ELSE DiscardBlocks([r EXCEPT !.word_index = 8],
                       (n - (8 - r.word_index)) \div 8,
                       (n - (8 - r.word_index)) % 8)

\* one operator() after an operation with outcome d, unless d threw
ThenCall(d) ==
    IF d.err # "none" THEN [rng |-> d.rng, err |-> d.err, val |-> -1]
    ELSE next_word(d.rng)

RECURSIVE CallTimes(_, _)
RECURSIVE AfterCalls(_, _)
\* operator() called k >= 1 times, stopping at the first call that throws;
\* the outcome of the last call made (the first half of the calls, then the
\* rest)
CallTimes(r, k) ==
    IF k = 1 THEN next_word(r) ELSE AfterCalls(CallTimes(r, k \div 2), k - (k \div 2))

\* k more calls after the calls with outcome d, unless one of those threw
AfterCalls(d, k) ==
    IF d.err # "none" THEN [rng |-> d.rng, err |-> d.err, val |-> -1]
    ELSE CallTimes(d.rng, k)

\* ------------------------------------------------ bytes and words of a Block

\* bit position of byte j inside a u32, at the model's word width
ByteShift(j) == (j * WordBits) \div 4

\* the u32 whose four bytes are b0 .. b3 (little-endian)
PackWord(b0, b1, b2, b3) ==
    (b0 + b1 * (2 ^ ByteShift(1)) + b2 * (2 ^ ByteShift(2))
        + b3 * (2 ^ ByteShift(3))) % U32Mod

\* byte j of the u32 w
ByteOf(w, j) ==
    (w \div (2 ^ ByteShift(j))) % (2 ^ (ByteShift(j + 1) - ByteShift(j)))

\* byte k (from 1) of a byte string, 0 past its end
ByteAt(bytes, k) == IF k <= Len(bytes) THEN bytes[k] ELSE 0

\* the Block64 whose bytes[] are the given bytes, zero-padded
BlockOfBytes(bytes) ==
    [i \in WordIdx |->
        PackWord(ByteAt(bytes, 4 * i + 1), ByteAt(bytes, 4 * i + 2),
                 ByteAt(bytes, 4 * i + 3), ByteAt(bytes, 4 * i + 4))]

\* the bytes[] view of a Block64
BytesOfBlock(block) ==
    [k \in 1 .. 64 |-> ByteOf(block[(k - 1) \div 4], (k - 1) % 4)]

\* operator^ on blocks
XorBlocks(a, b) == [i \in WordIdx |-> Xor(a[i], b[i])]

\* ^ on u64
Xor64(x, y) ==
    Xor(x % U32Mod, y % U32Mod) + U32Mod * Xor(x \div U32Mod, y \div U32Mod)

\* a left shift in place of the rotation
rotl64_shift(x, r) == (x * (2 ^ r)) % U64Mod

\* std::rotl on a u64
rotl64(x, r) ==
    ((x * (2 ^ r)) % U64Mod) + (x \div (2 ^ (2 * WordBits - r)))

\* a shift count of the 64-bit code, at the model's u64 width
Shift64(s) == (s * 2 * WordBits) \div 64

\* block.u64[j] ^= v
XorU64(block, j, v) ==
    [block EXCEPT ![2 * j] = Xor(@, v % U32Mod),
                  ![2 * j + 1] = Xor(@, v \div U32Mod)]

\* ---------------------------------------------------------------- Compressor

\* update with the ChaCha constants loaded into the first four words
Compressor_update_keyed(state, block) ==
    Permutation[[i \in WordIdx |->
        IF i < 4 THEN Xor(Xor(state[i], block[i]), ChaCha20_constants[i + 1])
        ELSE Xor(state[i], block[i])]]

\* Compressor::update(block): state ^= block; permute_block(state, state)
Compressor_update(state, block) == Permutation[XorBlocks(state, block)]

\* h with the final-block flag and the length rotl(total_bytes, 3) injected
FinalBlock(h, bit_len) ==
    [h EXCEPT ![0] = Xor(@, 1),
              ![12] = Xor(@, bit_len % U32Mod),
              ![13] = Xor(@, bit_len \div U32Mod)]

\* Compressor::finalize(total_bytes)
Compressor_finalize(state, total_bytes) ==
    Permutation[FinalBlock(state, rotl64(total_bytes, 3))]

\* ----------------------------------------------------------------- StoneHash

\* a hash object: the compressor's state, the pending bytes (fewer than 64)
\* and the number of bytes absorbed
StoneHash_new == [state |-> ZeroBlock, pending |-> <<>>, total |-> 0]

RECURSIVE StoneHash_update(_, _)
\* update(bytes) storing the bytes at the start of the pending buffer instead
\* of behind the bytes it holds
StoneHash_update_overwrite(h, bytes) ==
    IF Len(h.pending) + Len(bytes) < 64
    THEN [h EXCEPT !.pending = bytes,
                   !.total = (@ + Len(bytes)) % U64Mod]
    ELSE StoneHash_update(
            [state |-> Compressor_update(h.state,
                          BlockOfBytes(h.pending
                              \o SubSeq(bytes, 1, 64 - Len(h.pending)))),
             pending |-> <<>>,
             total |-> (h.total + (64 - Len(h.pending))) % U64Mod],
            SubSeq(bytes, 64 - Len(h.pending) + 1, Len(bytes)))

\* update(bytes): the pending buffer is compressed each time it fills
StoneHash_update(h, bytes) ==
    IF Len(h.pending) + Len(bytes) < 64
    THEN [h EXCEPT !.pending = @ \o bytes,
                   !.total = (@ + Len(bytes)) % U64Mod]
    ELSE StoneHash_update(
            [state |-> Compressor_update(h.state,
                          BlockOfBytes(h.pending
                              \o SubSeq(bytes, 1, 64 - Len(h.pending)))),
             pending |-> <<>>,
             total |-> (h.total + (64 - Len(h.pending))) % U64Mod],
            SubSeq(bytes, 64 - Len(h.pending) + 1, Len(bytes)))

\* finalize(): the residual bytes are XORed in, then the compressor finalizes
StoneHash_finalize(h) ==
    Compressor_finalize(XorBlocks(h.state, BlockOfBytes(h.pending)), h.total)

\* hash256(): the first 32 bytes of the digest
StoneHash_hash256(h) == [i \in 0 .. 7 |-> StoneHash_finalize(h)[i]]

\* the digest of the concatenation of four byte strings
Hash4(a, b, c, d) ==
    StoneHash_update(StoneHash_update(StoneHash_update(
        StoneHash_update(StoneHash_new, a), b), c), d)

\* "StoneHash::v2::fill"
Label_fill ==
    <<83, 116, 111, 110, 101, 72, 97, 115, 104, 58, 58, 118, 50, 58, 58,
    102, 105, 108, 108>>

\* "StoneHash::v2::counter_seed"
Label_counter_seed ==
    <<83, 116, 111, 110, 101, 72, 97, 115, 104, 58, 58, 118, 50, 58, 58, 99,
    111, 117, 110, 116, 101, 114, 95, 115, 101, 101, 100>>

\* "StoneKey::v2::final"
Label_final ==
    <<83, 116, 111, 110, 101, 75, 101, 121, 58, 58, 118, 50, 58, 58, 102,
    105, 110, 97, 108>>

\* ------------------------------------------------------------------ StoneKey

\* the m_cost the model runs StoneKey with where the code's default is
\* STONEKEY_V2_M_COST
ArenaBits == 1

STONEKEY_V2_T_COST == 3

\* GOLDEN_GAMMA, its low bits at the model's u64 width
GOLDEN_GAMMA == 2135587861 % U64Mod

RECURSIVE ShiftedBytes(_, _)
\* i >> (8 * k)
ShiftedBytes(i, k) == IF k = 0 THEN i ELSE ShiftedBytes(i \div 256, k - 1)

\* the eight bytes of a size_t, as update(&i, sizeof(i)) absorbs them
SizeBytes(i) == [k \in 1 .. 8 |-> ShiftedBytes(i, k - 1) % 256]

\* the fill absorbing the password into every block
FillBlock_password_everywhere(password, context, i) ==
    StoneHash_finalize(Hash4(Label_fill, context, SizeBytes(i), password))

\* Phase 1, block i: the digest of label, context, i and (for i = 0) password
FillBlock(password, context, i) ==
    StoneHash_finalize(Hash4(Label_fill, context, SizeBytes(i),
                             IF i = 0 THEN password ELSE <<>>))

\* the arena after the fill phase
FillPhase(password, context, n_blocks) ==
    [i \in 0 .. (n_blocks - 1) |-> FillBlock(password, context, i)]

\* counter = GOLDEN_GAMMA ^ first u64 of the counter-seed digest
CounterSeed(password) ==
    Xor64(GOLDEN_GAMMA,
          U64At(StoneHash_finalize(Hash4(Label_counter_seed, password,
                                         <<>>, <<>>)), 0))

\* mix = counter ^ (uint64_t(a) << 32 | b)
MixOf(counter, a, b) == Xor64(counter, ((a * U32Mod) % U64Mod) + b)

\* y[i] ^= x[i] ^ uint32_t(mix >> (i * 4)), then the four column
\* quarter-rounds on y; xym is <<x, y, mix>>
MixedY[xym \in Block64 \X Block64 \X (0 .. U64Max)] ==
    ColumnRounds([i \in WordIdx |->
        Xor(xym[2][i],
            Xor(xym[1][i], (xym[3] \div (2 ^ Shift64(4 * i))) % U32Mod))])

\* memory[b] = y and x[i] ^= y[i] on memory[a]
PutPair(memory, a, b, y) ==
    [memory EXCEPT ![b] = y, ![a] = XorBlocks(memory[a], y)]

\* one butterfly on blocks a and b
ButterflyStep(memory, counter, a, b) ==
    PutPair(memory, a, b, MixedY[<<memory[a], memory[b], MixOf(counter, a, b)>>])

RECURSIVE KLoop(_, _, _)
\* for (k = 0; k < span; ++k): the pairs <<a, b>> in the order they are mixed
KLoop(start, span, k) ==
    IF k >= span THEN <<>>
    ELSE <<<<start + k, start + k + span>>>> \o KLoop(start, span, k + 1)

RECURSIVE StartLoop(_, _, _)
\* for (start = 0; start < n_blocks; start += 2 * span)
StartLoop(span, start, n_blocks) ==
    IF start >= n_blocks THEN <<>>
    ELSE KLoop(start, span, 0) \o StartLoop(span, start + 2 * span, n_blocks)

RECURSIVE SpanLoop(_, _)
\* for (span = 1; span < n_blocks; span *= 2)
SpanLoop(span, n_blocks) ==
    IF span >= n_blocks THEN <<>>
    ELSE StartLoop(span, 0, n_blocks) \o SpanLoop(span * 2, n_blocks)

\* the pairs of one round, the two blocks of a pair taken in the order a bit
\* of the counter selects
WithCounter_by_counter(counter, pairs) ==
    [j \in 1 .. Len(pairs) |->
        IF counter % 2 = 1 THEN <<counter, pairs[j][2], pairs[j][1]>>
        ELSE <<counter, pairs[j][1], pairs[j][2]>>]

\* the pairs of one round, each with the round's counter
WithCounter(counter, pairs) ==
    [j \in 1 .. Len(pairs) |-> <<counter, pairs[j][1], pairs[j][2]>>]

RECURSIVE RoundLoop(_, _, _, _)
\* for (round = 0; round < t_cost; ++round): counter += GOLDEN_GAMMA, then
\* the butterfly section; the butterflies <<counter, a, b>> in order
RoundLoop(counter, round, t_cost, n_blocks) ==
    IF round >= t_cost THEN <<>>
    ELSE WithCounter((counter + GOLDEN_GAMMA) % U64Mod, SpanLoop(1, n_blocks))
            \o RoundLoop((counter + GOLDEN_GAMMA) % U64Mod, round + 1,
                         t_cost, n_blocks)

RECURSIVE MixedUpTo(_, _, _)
\* the arena after the first j butterflies of the schedule
MixedUpTo(memory, schedule, j) ==
    IF j = 0 THEN memory
    ELSE ButterflyStep(MixedUpTo(memory, schedule, j - 1),
                       schedule[j][1], schedule[j][2], schedule[j][3])

\* Phase 2: the arena after every round
MixPhase(memory, schedule) == MixedUpTo(memory, schedule, Len(schedule))

\* the index mixing of the final compression
IndexMixed(acc, i) ==
    XorU64(XorU64(XorU64(XorU64(acc, 0, i % U64Mod),
                         1, (i * U32Mod) % U64Mod),
                  2, (i * GOLDEN_GAMMA) % U64Mod),
           3, (i * (GOLDEN_GAMMA \div (2 ^ Shift64(13)))) % U64Mod)

RECURSIVE CompressedUpTo(_, _)
\* acc after blocks 0 .. i - 1 of the final compression
CompressedUpTo(memory, i) ==
    IF i = 0 THEN ZeroBlock
    ELSE Permutation[IndexMixed(XorBlocks(CompressedUpTo(memory, i - 1),
                                          memory[i - 1]), i - 1)]

\* Phase 3 and the final mixing round
CompressPhase(memory, n_blocks) == Permutation[CompressedUpTo(memory, n_blocks)]

\* StoneKey(password, context, m_cost, t_cost)
StoneKey(password, context, m_cost, t_cost) ==
    IF m_cost > 26 THEN [err |-> "m_cost too high", key |-> <<>>]
    ELSE IF t_cost = 0 THEN [err |-> "t_cost must be >= 1", key |-> <<>>]
    ELSE IF Len(password) = 0 THEN [err |-> "password is empty", key |-> <<>>]
    ELSE [err |-> "none",
          key |-> StoneHash_hash256(Hash4(Label_final, password, context,
                    BytesOfBlock(CompressPhase(
                        MixPhase(FillPhase(password, context, 2 ^ m_cost),
                                 RoundLoop(CounterSeed(password), 0, t_cost,
                                           2 ^ m_cost)),
                        2 ^ m_cost))))]

\* StoneRNG(const Block32&): the seed, zero-extended to 64 bytes, is permuted;
\* its first ten words are the key and the nonce; the counter starts at 0
SeedExpanded(temp) ==
    refill_buffer([FreshRNG EXCEPT !.key = [i \in 0 .. 7 |-> temp[i]],
                                   !.nonce = [i \in 0 .. 1 |-> temp[8 + i]]])

StoneRNG_seed(block) ==
    SeedExpanded(Permutation[[i \in WordIdx |->
                                IF i < 8 THEN block[i] ELSE 0]])


\* ------------------------------------------------------------ byte strings

\* A std::string is the sequence of its bytes; 0 is the NUL byte.

RECURSIVE strlen(_)
\* the bytes of a char array before its first NUL
strlen(lit) == IF lit = <<>> \/ Head(lit) = 0 THEN 0 ELSE 1 + strlen(Tail(lit))

\* std::string(const char*) and operator+(std::string, const char*): the
\* array is read up to its first NUL
CStr(lit) == SubSeq(lit, 1, strlen(lit))

RECURSIVE Digits(_)
\* the decimal digits of n >= 0, most significant first
Digits(n) ==
    IF n < 10 THEN <<48 + n>> ELSE Digits(n \div 10) \o <<48 + (n % 10)>>

\* std::to_string(int)
to_string(n) == IF n < 0 THEN <<45>> \o Digits(-n) ELSE Digits(n)

\* "ABCDEFGHJKLMNPQRSTUVWXYZ"
STONEPASS_UPPERCASE ==
    <<65, 66, 67, 68, 69, 70, 71, 72, 74, 75, 76, 77, 78, 80, 81, 82, 83,
    84, 85, 86, 87, 88, 89, 90>>

\* "abcdefghijkmnpqrstuvwxyz"
STONEPASS_LOWERCASE ==
    <<97, 98, 99, 100, 101, 102, 103, 104, 105, 106, 107, 109, 110, 112,
    113, 114, 115, 116, 117, 118, 119, 120, 121, 122>>

\* "23456789"
STONEPASS_DIGITS ==
    <<50, 51, 52, 53, 54, 55, 56, 57>>

\* "@#$%&*()[]{};:,.?"
STONEPASS_SYMBOLS ==
    <<64, 35, 36, 37, 38, 42, 40, 41, 91, 93, 123, 125, 59, 58, 44, 46, 63>>

\* the array "StonePassword_v1.0\0" (its NUL is written in the literal)
Lit_header ==
    <<83, 116, 111, 110, 101, 80, 97, 115, 115, 119, 111, 114, 100, 95, 118,
    49, 46, 48, 0>>

\* "len:"
Lit_len ==
    <<108, 101, 110, 58>>

\* the array "\0upper:"
Lit_upper ==
    <<0, 117, 112, 112, 101, 114, 58>>

\* the array "\0lower:"
Lit_lower ==
    <<0, 108, 111, 119, 101, 114, 58>>

\* the array "\0digits:"
Lit_digits ==
    <<0, 100, 105, 103, 105, 116, 115, 58>>

\* the array "\0symbols:"
Lit_symbols ==
    <<0, 115, 121, 109, 98, 111, 108, 115, 58>>

\* flag ? "1" : "0"
FlagStr(flag) == IF flag THEN <<49>> ELSE <<48>>

\* the context string of generate_password for the arguments in
ContextOf(in) ==
    CStr(Lit_header) \o to_string(in.V) \o <<0>>
      \o in.U \o <<0>> \o in.S \o <<0>>
      \o CStr(Lit_len) \o to_string(in.L)
      \o CStr(Lit_upper) \o CStr(FlagStr(in.ru))
      \o CStr(Lit_lower) \o CStr(FlagStr(in.rl))
      \o CStr(Lit_digits) \o CStr(FlagStr(in.rd))
      \o CStr(Lit_symbols) \o CStr(FlagStr(in.rs))

\* required_count
required_count(in) ==
    (IF in.ru THEN 1 ELSE 0) + (IF in.rl THEN 1 ELSE 0)
        + (IF in.rd THEN 1 ELSE 0) + (IF in.rs THEN 1 ELSE 0)

\* the validation without the check of password_version
Validate_any_version(in) ==
    IF in.U = <<>> THEN "Username cannot be empty"
    ELSE IF in.P = <<>> THEN "Master password cannot be empty"
    ELSE IF in.S = <<>> THEN "Site name cannot be empty"
    ELSE IF in.L < 6 \/ in.L > 128 THEN "password_length must be 6-128"
    ELSE IF in.ru /\ in.upper = <<>> THEN "cannot require uppercase"
    ELSE IF in.rl /\ in.lower = <<>> THEN "cannot require lowercase"
    ELSE IF in.rd /\ in.digits = <<>> THEN "cannot require digits"
    ELSE IF in.rs /\ in.symbols = <<>> THEN "cannot require symbols"
    ELSE IF in.L < required_count(in) THEN "password_length too short"
    ELSE ""

\* the first check of generate_password's validation that fails, "" if none
Validate(in) ==
    IF in.U = <<>> THEN "Username cannot be empty"
    ELSE IF in.P = <<>> THEN "Master password cannot be empty"
    ELSE IF in.S = <<>> THEN "Site name cannot be empty"
    ELSE IF in.L < 6 \/ in.L > 128 THEN "password_length must be 6-128"
    ELSE IF in.V < 1 THEN "Password version must be >= 1"
    ELSE IF in.ru /\ in.upper = <<>> THEN "cannot require uppercase"
    ELSE IF in.rl /\ in.lower = <<>> THEN "cannot require lowercase"
    ELSE IF in.rd /\ in.digits = <<>> THEN "cannot require digits"
    ELSE IF in.rs /\ in.symbols = <<>> THEN "cannot require symbols"
    ELSE IF in.L < required_count(in) THEN "password_length too short"
    ELSE ""

\* all_chars: the required categories' sets, concatenated
all_chars(in) ==
    (IF in.ru THEN in.upper ELSE <<>>) \o (IF in.rl THEN in.lower ELSE <<>>)
      \o (IF in.rd THEN in.digits ELSE <<>>)
      \o (IF in.rs THEN in.symbols ELSE <<>>)

\* ------------------------------------------- one generator and its callers

\* operations allowed on one generator object before the model stops
MaxOps == 3
\* discard(n) is compared with n + 1 draws for every n up to MaxDiscard and
\* for the distant n = FarDiscard
MaxDiscard == 17
FarDiscard == 100

InitCounters == {0, U64Max - 1, U64Max}
BoundArgs == {0, 5, U64Max}
DiscardArgs == {0, 1, 8, 17, U64Max}

rngVars == <<rng, alive, last, exhausted, ops, entropy>>

NoOp ==
    [op |-> "none", err |-> "none", val |-> -1, lo |-> 0, hi |-> 0, n |-> 0,
     consumed |-> 0, path |-> "none", wide |-> 0, was_exhausted |-> FALSE,
     pre_index |-> 8, pre_counter |-> 0]

RngIdle ==
    /\ rng = FreshRNG
    /\ alive = FALSE
    /\ last = NoOp
    /\ exhausted = FALSE
    /\ ops = 0
    /\ entropy = 0

\* a constructor ran: the object exists only if it did not throw
Constructed(outcome) ==
    \E o \in {outcome} :
    /\ rng' = o.rng
    /\ alive' = (o.err = "none")
    /\ last' = [NoOp EXCEPT !.op = "ctor", !.err = o.err]
    /\ exhausted' = FALSE
    /\ ops' = 0

Construct ==
    /\ ~alive
    /\ \E k \in Keys, n \in {NonceOf(1)}, c \in InitCounters :
          Constructed(StoneRNG_knc(k, n, c))
    /\ UNCHANGED <<entropy, pair, uni, gp, restVars, lateVars>>

ConstructDefault ==
    /\ ~alive
    /\ Constructed(StoneRNG_default)
    /\ \E e \in EntropySet : entropy' = e
    /\ UNCHANGED <<pair, uni, gp, restVars, lateVars>>

Call ==
    /\ alive /\ ops < MaxOps
    /\ \E o \in {next_word(rng)} :
           /\ rng' = o.rng
           /\ last' = [NoOp EXCEPT !.op = "call", !.err = o.err, !.val = o.val,
                                   !.was_exhausted = exhausted,
                                   !.pre_index = rng.word_index,
                                   !.pre_counter = rng.block_counter]
           /\ exhausted' = (exhausted \/ o.err = "exhausted")
    /\ ops' = ops + 1
    /\ UNCHANGED <<alive, entropy, pair, uni, gp, restVars, lateVars>>

Unbiased ==
    /\ alive /\ ops < MaxOps
    /\ \E lo \in BoundArgs, hi \in BoundArgs :
          \E o \in {unbiased(rng, lo, hi)} :
              /\ rng' = o.rng
              /\ last' = [NoOp EXCEPT !.op = "unbiased", !.err = o.err,
                                      !.val = o.val, !.lo = lo, !.hi = hi,
                                      !.consumed = o.consumed,
                                      !.path = o.path, !.wide = o.wide,
                                      !.was_exhausted = exhausted,
                                      !.pre_index = rng.word_index,
                                      !.pre_counter = rng.block_counter]
              /\ exhausted' = (exhausted \/ o.err = "exhausted")
    /\ ops' = ops + 1
    /\ UNCHANGED <<alive, entropy, pair, uni, gp, restVars, lateVars>>

Discard ==
    /\ alive /\ ops < MaxOps
    /\ \E n \in DiscardArgs :
          \E o \in {discard(rng, n)} :
              /\ rng' = o.rng
              /\ last' = [NoOp EXCEPT !.op = "discard", !.err = o.err,
                                      !.n = n,
                                      !.was_exhausted = exhausted,
                                      !.pre_index = rng.word_index,
                                      !.pre_counter = rng.block_counter]
              /\ exhausted' = (exhausted \/ o.err = "exhausted")
    /\ ops' = ops + 1
    /\ UNCHANGED <<alive, entropy, pair, uni, gp, restVars, lateVars>>

Reseed ==
    /\ alive /\ ops < MaxOps
    /\ \E k \in {KeyOf(0)}, n \in Nonces :
          \E o \in {reseed(rng, k, n)} :
              /\ rng' = o.rng
              /\ last' = [NoOp EXCEPT !.op = "reseed", !.err = o.err,
                                      !.was_exhausted = exhausted,
                                      !.pre_index = rng.word_index,
                                      !.pre_counter = rng.block_counter]
              /\ exhausted' = (o.err = "exhausted")
    /\ ops' = ops + 1
    /\ UNCHANGED <<alive, entropy, pair, uni, gp, restVars, lateVars>>

vars == <<rngVars, pair, uni, gp, restVars, lateVars>>

\* ---------------------------------------------- two generators, same seed

NoOut == [err |-> "none", val |-> -1]

PairIdle ==
    pair = [phase |-> "none", k |-> KeyOf(0), n |-> NonceOf(0), c |-> 0,
            a |-> FreshRNG, b |-> FreshRNG, ea |-> 0, eb |-> 0,
            outA |-> NoOut, outB |-> NoOut, steps |-> 0]

\* what the caller sees of an outcome
Seen(o) == [err |-> o.err, val |-> IF "val" \in DOMAIN o THEN o.val ELSE -1]

\* the first generator is constructed
PairConstructA ==
    /\ pair.phase = "none"
    /\ \E k \in Keys, n \in Nonces, c \in {0, U64Max - 1} :
          \E o \in {StoneRNG_knc(k, n, c)} :
             /\ o.err = "none"
             /\ pair' = [pair EXCEPT !.phase = "a", !.k = k, !.n = n, !.c = c,
                                     !.a = o.rng, !.ea = entropy]
    /\ UNCHANGED <<rngVars, uni, gp, restVars, lateVars>>

\* between the two constructions the OS entropy source moves on
PairEntropy ==
    /\ pair.phase = "a"
    /\ \E e \in EntropySet \ {entropy} : entropy' = e
    /\ UNCHANGED <<rng, alive, last, exhausted, ops, pair, uni, gp, restVars, lateVars>>

\* the second generator is constructed from the same key, nonce, counter
PairConstructB ==
    /\ pair.phase = "a"
    /\ \E o \in {StoneRNG_knc(pair.k, pair.n, pair.c)} :
          /\ o.err = "none"
          /\ pair' = [pair EXCEPT !.phase = "both", !.b = o.rng,
                                  !.eb = entropy]
    /\ UNCHANGED <<rngVars, uni, gp, restVars, lateVars>>

\* the same call made on both generators
PairStep(oa, ob) ==
    \E x \in {oa}, y \in {ob} :
       pair' = [pair EXCEPT !.a = x.rng, !.b = y.rng, !.outA = Seen(x),
                            !.outB = Seen(y), !.steps = @ + 1]

PairCall ==
    /\ pair.phase = "both" /\ pair.steps < MaxOps
    /\ PairStep(next_word(pair.a), next_word(pair.b))
    /\ UNCHANGED <<rngVars, uni, gp, restVars, lateVars>>

PairUnbiased ==
    /\ pair.phase = "both" /\ pair.steps < MaxOps
    /\ \E lo \in BoundArgs, hi \in BoundArgs :
          PairStep(unbiased(pair.a, lo, hi), unbiased(pair.b, lo, hi))
    /\ UNCHANGED <<rngVars, uni, gp, restVars, lateVars>>

PairDiscard ==
    /\ pair.phase = "both" /\ pair.steps < MaxOps
    /\ \E n \in DiscardArgs :
          PairStep(discard(pair.a, n), discard(pair.b, n))
    /\ UNCHANGED <<rngVars, uni, gp, restVars, lateVars>>

\* ------------------------------------------- unbiased over every raw word

UniIdle == uni = [lo |-> 0, hi |-> 0, w |-> 0, count |-> <<>>]

\* lower bounds the tally is made for
TallyLows == {0, 3}

\* bounds lo < hi that do not span the full range
UniStart ==
    \E lo \in TallyLows, hi \in 0 .. U64Max :
       /\ lo < hi
       /\ Sub64(hi, lo) # U64Max
       /\ uni = [lo |-> lo, hi |-> hi, w |-> 0,
                 count |-> [v \in lo .. hi |-> 0]]

\* range of the tally's bounds
UniRange == (Sub64(uni.hi, uni.lo) + 1) % U64Mod

\* the raw word uni.w passes the acceptance test and maps to a value
TallyAccept ==
    /\ uni.w < U64Mod
    /\ ~Rejected(uni.w, LimitOf(UniRange))
    /\ uni' = [uni EXCEPT !.w = @ + 1,
                          !.count[Mapped(uni.lo, uni.w, UniRange)] = @ + 1]
    /\ UNCHANGED <<rngVars, pair, gp, restVars, lateVars>>

\* the raw word uni.w is rejected and another is drawn
TallyReject ==
    /\ uni.w < U64Mod
    /\ Rejected(uni.w, LimitOf(UniRange))
    /\ uni' = [uni EXCEPT !.w = @ + 1]
    /\ UNCHANGED <<rngVars, pair, gp, restVars, lateVars>>

\* ---------------------------------------------------------- generate_password

\* the required flag and the character set of category c: 1 uppercase,
\* 2 lowercase, 3 digits, 4 symbols
CatRequired(in, c) ==
    IF c = 1 THEN in.ru ELSE IF c = 2 THEN in.rl
    ELSE IF c = 3 THEN in.rd ELSE in.rs

CatChars(in, c) ==
    IF c = 1 THEN in.upper ELSE IF c = 2 THEN in.lower
    ELSE IF c = 3 THEN in.digits ELSE in.symbols

RECURSIVE NextCat(_, _)
\* the first required category from c on, 5 if there is none
NextCat(in, c) ==
    IF c > 4 THEN 5 ELSE IF CatRequired(in, c) THEN c ELSE NextCat(in, c + 1)

\* bytes that a read past the end of a string may yield
GarbageBytes == {0, 63}

\* characters[index], o being the outcome of unbiased: a read inside the
\* string yields its byte; a read outside it is undefined and yields any
\* byte or ends the process
DrawnAt(characters, o) ==
    IF o.err # "none" THEN {[rng |-> o.rng, how |-> "threw", ch |-> 0]}
    ELSE IF o.val < Len(characters)
    THEN {[rng |-> o.rng, how |-> "ok", ch |-> characters[o.val + 1]]}
    ELSE {[rng |-> o.rng, how |-> "ub", ch |-> g] : g \in GarbageBytes}
            \cup {[rng |-> o.rng, how |-> "crash", ch |-> 0]}

\* the draw lambda: max_index = characters.size() - 1 in size_t arithmetic
draw(characters, r) ==
    DrawnAt(characters, unbiased(r, 0, Sub64(Len(characters), 1)))

\* std::swap(password[i], password[j]), i and j counted from 0
Swapped(password, i, j) ==
    [password EXCEPT ![i + 1] = password[j + 1], ![j + 1] = password[i + 1]]

NoInput ==
    [U |-> <<>>, P |-> <<>>, S |-> <<>>, L |-> 0, V |-> 0,
     upper |-> <<>>, lower |-> <<>>, digits |-> <<>>, symbols |-> <<>>,
     ru |-> FALSE, rl |-> FALSE, rd |-> FALSE, rs |-> FALSE]

NoFirst ==
    [set |-> FALSE, in |-> NoInput, pc |-> "idle", password |-> <<>>,
     context |-> <<>>]

\* no invocation yet
GpFresh ==
    [pc |-> "idle", in |-> NoInput, msg |-> "", context |-> <<>>,
     kdf_calls |-> 0, rng |-> FreshRNG, password |-> <<>>, cat |-> 1,
     i |-> 0, ub |-> FALSE, first |-> NoFirst]

GpIdle == gp = GpFresh

\* the arguments of the invocations
BaseInput ==
    [U |-> <<117>>, P |-> <<112, 119>>, S |-> <<115>>, L |-> 6, V |-> 1,
     upper |-> STONEPASS_UPPERCASE, lower |-> STONEPASS_LOWERCASE,
     digits |-> STONEPASS_DIGITS, symbols |-> STONEPASS_SYMBOLS,
     ru |-> TRUE, rl |-> TRUE, rd |-> TRUE, rs |-> TRUE]

ValidInputs ==
    {BaseInput,
     [BaseInput EXCEPT !.L = 7],
     [BaseInput EXCEPT !.L = 128],
     [BaseInput EXCEPT !.V = 12],
     [BaseInput EXCEPT !.P = <<112>>],
     [BaseInput EXCEPT !.U = <<97, 0, 98>>, !.S = <<99>>],
     [BaseInput EXCEPT !.U = <<97>>, !.S = <<98, 0, 99>>],
     [BaseInput EXCEPT !.rl = FALSE, !.rd = FALSE, !.rs = FALSE],
     [BaseInput EXCEPT !.rs = FALSE, !.symbols = <<>>],
     [BaseInput EXCEPT !.upper = <<65>>, !.lower = <<65, 98>>],
     [BaseInput EXCEPT !.ru = FALSE, !.rl = FALSE, !.rd = FALSE,
                       !.rs = FALSE]}

InvalidInputs ==
    {[BaseInput EXCEPT !.U = <<>>],
     [BaseInput EXCEPT !.P = <<>>],
     [BaseInput EXCEPT !.S = <<>>],
     [BaseInput EXCEPT !.L = 5],
     [BaseInput EXCEPT !.L = 3],
     [BaseInput EXCEPT !.L = 129],
     [BaseInput EXCEPT !.V = 0],
     [BaseInput EXCEPT !.V = -3],
     [BaseInput EXCEPT !.digits = <<>>],
     [BaseInput EXCEPT !.upper = <<>>, !.rl = FALSE]}

PassInputs == ValidInputs \cup InvalidInputs

\* an invocation has ended: it returned, threw, or the process died
Ended == gp.pc \in {"returned", "threw", "crashed"}

\* what is remembered of the first invocation once a later one starts
Remembered ==
    IF gp.first.set \/ gp.pc = "idle" THEN gp.first
    ELSE [set |-> TRUE, in |-> gp.in, pc |-> gp.pc,
          password |-> gp.password, context |-> gp.context]

\* generate_password is called: the input validation
Invoke ==
    /\ gp.pc = "idle" \/ Ended
    /\ \E in \in PassInputs :
          gp' = [GpFresh EXCEPT !.in = in,
                                !.msg = Validate(in),
                                !.pc = IF Validate(in) = "" THEN "validated"
                                       ELSE "threw",
                                !.first = Remembered]
    /\ UNCHANGED <<rngVars, pair, uni, restVars, lateVars>>

\* the state after the context is built, the key derived, the generator
\* seeded (k is StoneKey's outcome, o the constructor's)
Derived(k, o) ==
    IF k.err # "none" \/ o.err # "none"
    THEN [gp EXCEPT !.pc = "threw",
                    !.msg = IF k.err # "none" THEN k.err ELSE o.err,
                    !.context = ContextOf(gp.in), !.kdf_calls = @ + 1]
    ELSE [gp EXCEPT !.pc = "drawing", !.context = ContextOf(gp.in),
                    !.kdf_calls = @ + 1, !.rng = o.rng,
                    !.cat = NextCat(gp.in, 1), !.i = gp.in.L - 1]

\* context, StoneKey(master_password, context), StoneRNG rng(hash1)
Derive ==
    /\ gp.pc = "validated"
    /\ \E k \in {StoneKey(gp.in.P, ContextOf(gp.in), ArenaBits,
                          STONEKEY_V2_T_COST)} :
          \E o \in {IF k.err = "none" THEN StoneRNG_seed(k.key)
                    ELSE Threw(FreshRNG, k.err)} :
             gp' = Derived(k, o)
    /\ UNCHANGED <<rngVars, pair, uni, restVars, lateVars>>

\* password += the drawn character d
Drawn(d, cat) ==
    IF d.how = "threw" THEN [gp EXCEPT !.pc = "threw", !.msg = "exhausted",
                                       !.rng = d.rng]
    ELSE IF d.how = "crash" THEN [gp EXCEPT !.pc = "crashed", !.rng = d.rng]
    ELSE [gp EXCEPT !.password = Append(@, d.ch), !.rng = d.rng,
                    !.cat = cat, !.ub = (@ \/ d.how = "ub")]

\* if (require_x) password += draw(x, rng), for the next required category
DrawRequired ==
    /\ gp.pc = "drawing" /\ gp.cat <= 4
    /\ \E d \in draw(CatChars(gp.in, gp.cat), gp.rng) :
          gp' = Drawn(d, NextCat(gp.in, gp.cat + 1))
    /\ UNCHANGED <<rngVars, pair, uni, restVars, lateVars>>

\* while (password.size() < password_length) password += draw(all_chars, rng)
FillDraw ==
    /\ gp.pc = "drawing" /\ gp.cat = 5 /\ Len(gp.password) < gp.in.L
    /\ \E d \in draw(all_chars(gp.in), gp.rng) : gp' = Drawn(d, 5)
    /\ UNCHANGED <<rngVars, pair, uni, restVars, lateVars>>

\* one iteration of the Fisher-Yates loop: j = rng.unbiased(0, i); swap
Shuffle ==
    /\ gp.pc = "drawing" /\ gp.cat = 5 /\ Len(gp.password) >= gp.in.L
    /\ gp.i > 0
    /\ \E o \in {unbiased(gp.rng, 0, gp.i)} :
          gp' = IF o.err # "none"
                THEN [gp EXCEPT !.pc = "threw", !.msg = "exhausted",
                                !.rng = o.rng]
                ELSE [gp EXCEPT !.password = Swapped(@, gp.i, o.val),
                                !.rng = o.rng, !.i = @ - 1]
    /\ UNCHANGED <<rngVars, pair, uni, restVars, lateVars>>

\* return password
Return ==
    /\ gp.pc = "drawing" /\ gp.cat = 5 /\ Len(gp.password) >= gp.in.L
    /\ gp.i = 0
    /\ gp' = [gp EXCEPT !.pc = "returned"]
    /\ UNCHANGED <<rngVars, pair, uni, restVars, lateVars>>

\* ------------------------------------- serialization, equality and moves

\* the bytes of n consecutive u32 words, little-endian
WordsBytes(words, n) ==
    [k \in 1 .. 4 * n |-> ByteOf(words[(k - 1) \div 4], (k - 1) % 4)]

\* the n u32 words held in 4 * n bytes
WordsOf(bytes, n) ==
    [i \in 0 .. n - 1 |->
        PackWord(bytes[4 * i + 1], bytes[4 * i + 2], bytes[4 * i + 3],
                 bytes[4 * i + 4])]

\* the eight bytes of a u64 and back
U64Bytes(c) == WordsBytes([i \in 0 .. 1 |-> IF i = 0 THEN c % U32Mod
                                              ELSE c \div U32Mod], 2)
U64Of(bytes) == WordsOf(bytes, 2)[0] + U32Mod * WordsOf(bytes, 2)[1]

\* static constexpr char magic[8] = "StoneRNG"
Magic == <<83, 116, 111, 110, 101, 82, 78, 71>>

\* operator<<: magic, version 1, key, nonce, block_counter, word_index and
\* seven padding bytes
Serialize(r) ==
    Magic \o <<1>> \o WordsBytes(r.key, 8) \o WordsBytes(r.nonce, 2)
        \o U64Bytes(r.block_counter) \o <<r.word_index>>
        \o [i \in 1 .. 7 |-> 0]

\* is.read(dest, n) at offset off of the stream s: the bytes the stream
\* still has are stored; where it ends the read fails and dest keeps its
\* old bytes
FieldBytes(old, s, off, n) ==
    [k \in 1 .. n |-> IF off + k <= Len(s) THEN s[off + k] ELSE old[k]]

\* the three reads of key, nonce and block_counter, made without a look at
\* the stream's state in between
ReadFields(r, s) ==
    [r EXCEPT
        !.key = WordsOf(FieldBytes(WordsBytes(r.key, 8), s, 9, 32), 8),
        !.nonce = WordsOf(FieldBytes(WordsBytes(r.nonce, 2), s, 41, 8), 2),
        !.block_counter = U64Of(FieldBytes(U64Bytes(r.block_counter), s, 49, 8))]

\* the current block is generated again from block_counter - 1; f is the
\* outcome of that refill
Regenerated(f, saved_counter, idx) ==
    IF f.err # "none" THEN f
    ELSE Ok([f.rng EXCEPT !.block_counter = saved_counter, !.word_index = idx])

\* operator>> from the read of word_index on; r already holds the key, the
\* nonce and the counter that were read
Restore(r, s) ==
    IF Len(s) < 58 \/ s[58] > 8 THEN Threw(r, "corrupted word_index")
    ELSE IF Len(s) < 65
    THEN Threw([r EXCEPT !.word_index = s[58]], "stream read error")
    ELSE IF s[58] >= 8 THEN Ok([r EXCEPT !.word_index = s[58]])
    ELSE IF r.block_counter = 0
    THEN Threw([r EXCEPT !.word_index = s[58]], "mid-block state at 0")
    ELSE Regenerated(refill_buffer([r EXCEPT !.block_counter = @ - 1,
                                             !.word_index = s[58]]),
                     r.block_counter, s[58])

\* operator>> taking every version byte
Deserialize_any_version(r, s) ==
    IF Len(s) < 8 \/ SubSeq(s, 1, 8) # Magic THEN Threw(r, "bad magic")
    ELSE Restore(ReadFields(r, s), s)

\* operator>>(is, rng), s being the bytes the stream holds
Deserialize(r, s) ==
    IF Len(s) < 8 \/ SubSeq(s, 1, 8) # Magic THEN Threw(r, "bad magic")
    ELSE IF Len(s) < 9 \/ s[9] # 1 THEN Threw(r, "unsupported version")
    ELSE Restore(ReadFields(r, s), s)

\* operator==(lhs, rhs): key, nonce, block_counter and word_index
Equal(lhs, rhs) ==
    /\ lhs.key = rhs.key
    /\ lhs.nonce = rhs.nonce
    /\ lhs.block_counter = rhs.block_counter
    /\ lhs.word_index = rhs.word_index

\* the defaulted move members copy member by member: the arrays and the
\* integers are copied, and Block64, which declares no move members, is
\* copied too; the source keeps all of its members
MovedInto(src) == src
MovedFrom(src) == src

\* lengths a stream is cut to, and what a byte of it is overwritten with
CutLengths == {0, 8, 20, 57, 58, 64}
Overwrites == {<<1, 0>>, <<9, 2>>, <<58, 9>>, <<60, 1>>}

\* counters the two generator objects are constructed with; y is also
\* constructed on the block after block 0
SerCounters == {0, U64Max - 1}
SerCountersY == SerCounters \cup {1}
\* discard arguments
SerDiscards == {7, 8}

SerFresh ==
    [phase |-> "none", x |-> FreshRNG, y |-> FreshRNG, stream |-> <<>>,
     pristine |-> FALSE, op |-> "none", err |-> "none", moved |-> FALSE,
     steps |-> 0]

SerIdle == ser = SerFresh

serFrame == <<rngVars, pair, uni, gp, sk, sh, bs, fy, ia, lateVars>>

\* the generator x is constructed
SerConstructX ==
    /\ ser.phase = "none"
    /\ \E k \in Keys, c \in SerCounters :
          \E o \in {StoneRNG_knc(k, NonceOf(0), c)} :
             /\ o.err = "none"
             /\ ser' = [ser EXCEPT !.phase = "x", !.x = o.rng]
    /\ UNCHANGED serFrame

\* the generator y is constructed
SerConstructY ==
    /\ ser.phase = "x"
    /\ \E k \in Keys, c \in SerCountersY :
          \E o \in {StoneRNG_knc(k, NonceOf(0), c)} :
             /\ o.err = "none"
             /\ ser' = [ser EXCEPT !.phase = "both", !.y = o.rng]
    /\ UNCHANGED serFrame

\* an operation with outcome o was made on x (which = "x") or on y, and an
\* error it raised was caught
SerDone(which, o, name) ==
    ser' = [ser EXCEPT !.x = IF which = "x" THEN o.rng ELSE @,
                       !.y = IF which = "y" THEN o.rng ELSE @,
                       !.pristine = (@ /\ which = "y"),
                       !.op = name, !.err = o.err, !.moved = FALSE,
                       !.steps = @ + 1]

SerCall ==
    /\ ser.phase = "both" /\ ser.steps < MaxOps
    /\ \E which \in {"x", "y"} :
          \E o \in {next_word(ser[which])} : SerDone(which, o, "call")
    /\ UNCHANGED serFrame

SerDiscard ==
    /\ ser.phase = "both" /\ ser.steps < MaxOps
    /\ \E which \in {"x", "y"}, n \in SerDiscards :
          \E o \in {discard(ser[which], n)} : SerDone(which, o, "discard")
    /\ UNCHANGED serFrame

SerReseed ==
    /\ ser.phase = "both" /\ ser.steps < MaxOps
    /\ \E which \in {"x", "y"} :
          \E o \in {reseed(ser[which], KeyOf(1), NonceOf(0))} :
             SerDone(which, o, "reseed")
    /\ UNCHANGED serFrame

\* os << x
SerWrite ==
    /\ ser.phase = "both" /\ ~ser.pristine
    /\ ser' = [ser EXCEPT !.stream = Serialize(ser.x), !.pristine = TRUE,
                          !.op = "write", !.err = "none", !.moved = FALSE]
    /\ UNCHANGED serFrame

\* the bytes are cut short before they are read back
SerCut ==
    /\ ser.phase = "both" /\ ser.pristine
    /\ \E n \in CutLengths :
          ser' = [ser EXCEPT !.stream = SubSeq(@, 1, n), !.pristine = FALSE,
                             !.op = "cut", !.moved = FALSE]
    /\ UNCHANGED serFrame

\* one of the bytes is overwritten before they are read back
SerOverwrite ==
    /\ ser.phase = "both" /\ ser.pristine
    /\ \E w \in Overwrites :
          /\ ser.stream[w[1]] # w[2]
          /\ ser' = [ser EXCEPT !.stream[w[1]] = w[2], !.pristine = FALSE,
                                !.op = "overwrite", !.moved = FALSE]
    /\ UNCHANGED serFrame

\* is >> y, an error being caught
SerRead ==
    /\ ser.phase = "both" /\ ser.steps < MaxOps
    /\ Len(ser.stream) > 0 \/ ser.op = "cut"
    /\ \E o \in {Deserialize(ser.y, ser.stream)} :
          ser' = [ser EXCEPT !.y = o.rng, !.op = "read", !.err = o.err,
                             !.moved = FALSE, !.steps = @ + 1]
    /\ UNCHANGED serFrame

\* y = std::move(x)
SerMove ==
    /\ ser.phase = "both" /\ ser.steps < MaxOps
    /\ ser' = [ser EXCEPT !.y = MovedInto(ser.x), !.x = MovedFrom(ser.x),
                          !.op = "move", !.err = "none", !.moved = TRUE,
                          !.steps = @ + 1]
    /\ UNCHANGED serFrame

\* ------------------------------------------------- StoneKey, step by step

\* std::vector<mblock> memory(n_blocks): value-initialized blocks
Allocated(n_blocks) == [i \in 0 .. (n_blocks - 1) |-> ZeroBlock]

\* the parameter checks at the head of StoneKey: the message thrown, "" if
\* none
KeyCheck(in) ==
    IF in.m_cost > 26 THEN "StoneKey: m_cost too high (max 26: 4 GiB)"
    ELSE IF in.t_cost = 0 THEN "StoneKey: t_cost must be >= 1"
    ELSE IF Len(in.password) = 0 THEN "StoneKey: password is empty"
    ELSE ""

\* for (j = 0; j < memory[i].size(); ++j) p[j] = 0, on block i
Wiped_none(memory, i) == memory
Wiped(memory, i) == [memory EXCEPT ![i] = ZeroBlock]

\* the arguments StoneKey is called with
KeyInputs ==
    [password : {<<>>, <<112, 119>>, <<113>>}, context : {<<>>, <<99>>},
     m_cost : {0, ArenaBits, ArenaBits + 1, 27}, t_cost : {0, 1, STONEKEY_V2_T_COST}]

NoKeyInput == [password |-> <<>>, context |-> <<>>, m_cost |-> 0, t_cost |-> 0]

NoRun == [set |-> FALSE, in |-> NoKeyInput, trace |-> <<>>]

SkFresh ==
    [pc |-> "idle", in |-> NoKeyInput, msg |-> "", allocated |-> FALSE,
     memory |-> <<>>, dirty |-> FALSE, i |-> 0, schedule |-> <<>>,
     acc |-> ZeroBlock, key |-> <<>>, trace |-> <<>>, first |-> NoRun]

SkIdle == sk = SkFresh

skFrame == <<rngVars, pair, uni, gp, ser, sh, bs, fy, ia, lateVars>>

\* the number of blocks of the invocation under way
SkBlocks == 2 ^ sk.in.m_cost

\* what is remembered of the first invocation that returned
FirstRun ==
    IF sk.first.set \/ sk.pc # "returned" THEN sk.first
    ELSE [set |-> TRUE, in |-> sk.in, trace |-> sk.trace]

\* StoneKey is called: the parameter checks and the allocation of the arena
SkInvoke ==
    /\ sk.pc \in {"idle", "returned", "threw"}
    /\ \E in \in KeyInputs :
          sk' = IF KeyCheck(in) # ""
                THEN [SkFresh EXCEPT !.pc = "threw", !.in = in,
                                     !.msg = KeyCheck(in), !.first = FirstRun]
                ELSE [SkFresh EXCEPT !.pc = "fill", !.in = in,
                                     !.allocated = TRUE,
                                     !.memory = Allocated(2 ^ in.m_cost),
                                     !.first = FirstRun]
    /\ UNCHANGED skFrame

\* Phase 1, one iteration: memory[i] = digest
SkFill ==
    /\ sk.pc = "fill" /\ sk.i < SkBlocks
    /\ sk' = [sk EXCEPT
                !.memory[sk.i] = FillBlock(sk.in.password, sk.in.context, sk.i),
                !.dirty = TRUE,
                !.trace = Append(@, <<"fill", sk.i>>),
                !.i = @ + 1]
    /\ UNCHANGED skFrame

\* the counter seed; the butterflies of all rounds are laid out
SkSeed ==
    /\ sk.pc = "fill" /\ sk.i >= SkBlocks
    /\ sk' = [sk EXCEPT
                !.pc = "mix",
                !.schedule = RoundLoop(CounterSeed(sk.in.password), 0,
                                       sk.in.t_cost, SkBlocks),
                !.i = 1]
    /\ UNCHANGED skFrame

\* Phase 2, one butterfly on memory[a] and memory[b]
SkButterfly ==
    /\ sk.pc = "mix" /\ sk.i <= Len(sk.schedule)
    /\ sk' = [sk EXCEPT
                !.memory = ButterflyStep(@, sk.schedule[sk.i][1],
                                         sk.schedule[sk.i][2],
                                         sk.schedule[sk.i][3]),
                !.trace = @ \o <<<<"mix", sk.schedule[sk.i][2]>>,
                                 <<"mix", sk.schedule[sk.i][3]>>>>,
                !.i = @ + 1]
    /\ UNCHANGED skFrame

\* the mixing is over
SkMixed ==
    /\ sk.pc = "mix" /\ sk.i > Len(sk.schedule)
    /\ sk' = [sk EXCEPT !.pc = "compress", !.i = 0]
    /\ UNCHANGED skFrame

\* Phase 3, one iteration: memory[i] and i are folded into acc
SkCompress ==
    /\ sk.pc = "compress" /\ sk.i < SkBlocks
    /\ sk' = [sk EXCEPT
                !.acc = Permutation[IndexMixed(XorBlocks(@, sk.memory[sk.i]),
                                               sk.i)],
                !.trace = Append(@, <<"compress", sk.i>>),
                !.i = @ + 1]
    /\ UNCHANGED skFrame

\* ChaCha::permute_block(acc, acc), the final mixing round
SkFinalMix ==
    /\ sk.pc = "compress" /\ sk.i >= SkBlocks
    /\ sk' = [sk EXCEPT !.pc = "wipe", !.acc = Permutation[@], !.i = 0]
    /\ UNCHANGED skFrame

\* the erasure of the arena, one block
SkWipe ==
    /\ sk.pc = "wipe" /\ sk.i < SkBlocks
    /\ sk' = [sk EXCEPT !.memory = Wiped(@, sk.i),
                        !.trace = Append(@, <<"wipe", sk.i>>),
                        !.i = @ + 1]
    /\ UNCHANGED skFrame

\* the final extraction and the return, at which the arena is released;
\* memory keeps what the released blocks hold
SkReturn ==
    /\ sk.pc = "wipe" /\ sk.i >= SkBlocks
    /\ sk' = [sk EXCEPT
                !.pc = "returned",
                !.key = StoneHash_hash256(Hash4(Label_final, sk.in.password,
                            sk.in.context, BytesOfBlock(sk.acc)))]
    /\ UNCHANGED skFrame

\* ------------------------------------------ a message absorbed in chunks

\* update calls made on one hash object
MaxChunks == 4

\* lengths of the messages and of the chunks they are absorbed in
MessageLengths == {0, 1, 63, 64, 65, 128, 130}
ChunkLengths == {0, 1, 5, 59, 63, 64, 65, 70, 128, 130}

\* the message of n bytes whose first byte is b
MessageOf(n, b) == [k \in 1 .. n |-> (b + 7 * k) % 256]

Messages == {MessageOf(n, b) : n \in MessageLengths, b \in {0, 200}}

ShBegin(m) ==
    [msg |-> m, pos |-> 0, h |-> StoneHash_new, chunks |-> 0,
     crossed |-> FALSE, empty |-> FALSE, done |-> FALSE, digest |-> ZeroBlock]

ShIdle == sh = ShBegin(<<>>)

\* a hash object is created for one of the messages
ShStart == \E m \in Messages : sh = ShBegin(m)

shFrame == <<rngVars, pair, uni, gp, ser, sk, bs, fy, ia, lateVars>>

\* update(chunk) with the next n bytes of the message; the last call allowed
\* takes all that is left
ShUpdate ==
    /\ ~sh.done /\ sh.chunks < MaxChunks
    /\ \E n \in ChunkLengths :
          /\ sh.pos + n <= Len(sh.msg)
          /\ sh.chunks + 1 < MaxChunks \/ sh.pos + n = Len(sh.msg)
          /\ sh' = [sh EXCEPT
                      !.h = StoneHash_update(@, SubSeq(sh.msg, sh.pos + 1,
                                                       sh.pos + n)),
                      !.pos = @ + n,
                      !.chunks = @ + 1,
                      !.crossed = (@ \/ (sh.pos % 64) + n > 64),
                      !.empty = (@ \/ n = 0)]
    /\ UNCHANGED shFrame

\* finalize() once the whole message is absorbed
ShFinalize ==
    /\ ~sh.done /\ sh.pos = Len(sh.msg)
    /\ sh' = [sh EXCEPT !.done = TRUE, !.digest = StoneHash_finalize(sh.h)]
    /\ UNCHANGED shFrame

\* ------------------------------------------------ build_state on its inputs

\* nonce words and counters the state is built from
LayoutNonces == {<<1, 2, 3>>, <<9, 2, 3>>, <<1, 10, 3>>, <<9, 10, 11>>}
LayoutCounters == {0, 5, U32Mod, U32Mod + 1, 4 * U32Mod + 7, U64Max - 1, U64Max}

BsBegin(k, n, c) ==
    [key |-> k, nonce |-> [i \in 0 .. 2 |-> n[i + 1] % U32Mod], counter |-> c,
     built |-> "none", state |-> ZeroBlock]

BsIdle == bs = BsBegin(KeyOf(0), <<0, 0, 0>>, 0)

\* a key, a nonce and a counter are chosen
BsStart ==
    \E k \in Keys, n \in LayoutNonces, c \in LayoutCounters :
        bs = BsBegin(k, n, c)

bsFrame == <<rngVars, pair, uni, gp, ser, sk, sh, fy, ia, lateVars>>

\* build_state(key, NONCE, BLOCK_COUNTER) with the first two nonce words
BsBuild64 ==
    /\ bs.built # "64"
    /\ bs' = [bs EXCEPT
                !.built = "64",
                !.state = build_state(bs.key,
                                      [i \in 0 .. 1 |-> bs.nonce[i]],
                                      bs.counter)]
    /\ UNCHANGED bsFrame

\* build_state(key, NONCE96, BLOCK_COUNTER_32) with the counter's low word
BsBuild96 ==
    /\ bs.built # "96"
    /\ bs' = [bs EXCEPT
                !.built = "96",
                !.state = build_state96(bs.key, bs.nonce,
                                        bs.counter % U32Mod)]
    /\ UNCHANGED bsFrame

\* ------------------------------------- the shuffle under every choice of j

\* the longest password the loop is run on
MaxShuffle == 5

\* the password before the shuffle (characters repeat) and the positions of
\* its characters
Unshuffled(L) == [k \in 1 .. L |-> 65 + (k % 3)]
Positions(L) == [k \in 1 .. L |-> k]

\* the values j = rng.unbiased(0, i) can take
ShuffleChoices_any(L, i) == 0 .. (L - 1)
ShuffleChoices(L, i) == 0 .. i

\* one value of j for each i of the loop
ChoiceSeqs(L) ==
    {c \in [1 .. (L - 1) -> 0 .. (L - 1)] :
        \A i \in 1 .. (L - 1) : c[i] \in ShuffleChoices(L, i)}

RECURSIVE ShuffleOf(_, _, _)
\* for (i = ...; i > 0; --i) swap(password[i], password[c[i]]), from i down
ShuffleOf(password, c, i) ==
    IF i = 0 THEN password
    ELSE ShuffleOf(Swapped(password, i, c[i]), c, i - 1)

FyBegin(L) ==
    [L |-> L, i |-> L - 1, password |-> Unshuffled(L), perm |-> Positions(L),
     choices |-> [k \in 1 .. (L - 1) |-> 0]]

FyIdle == fy = FyBegin(1)

\* a password of L characters is about to be shuffled
FyStart == \E L \in 2 .. MaxShuffle : fy = FyBegin(L)

fyFrame == <<rngVars, pair, uni, gp, ser, sk, sh, bs, ia, lateVars>>

\* one iteration: j is chosen, password[i] and password[j] are swapped
FySwap ==
    /\ fy.i > 0
    /\ \E j \in ShuffleChoices(fy.L, fy.i) :
          fy' = [fy EXCEPT !.password = Swapped(@, fy.i, j),
                           !.perm = Swapped(@, fy.i, j),
                           !.choices[fy.i] = j,
                           !.i = @ - 1]
    /\ UNCHANGED fyFrame

\* the loop is over and the next password is shuffled
FyAgain ==
    /\ fy.i = 0
    /\ \E L \in 2 .. MaxShuffle : fy' = FyBegin(L)
    /\ UNCHANGED fyFrame

\* ------------------------------------------- generate_password_interactive

\* std::isspace in the "C" locale
IsSpace(c) == c = 32 \/ (c >= 9 /\ c <= 13)

RECURSIVE TrimLeft(_)
RECURSIVE TrimRight(_)
TrimLeft(str) ==
    IF Len(str) > 0 /\ IsSpace(Head(str)) THEN TrimLeft(Tail(str)) ELSE str
TrimRight(str) ==
    IF Len(str) > 0 /\ IsSpace(str[Len(str)])
    THEN TrimRight(SubSeq(str, 1, Len(str) - 1)) ELSE str

\* trim(s): the line without its leading and trailing whitespace
trim(str) == TrimRight(TrimLeft(str))

\* lines and numbers typed at the prompts
TypedNames == {<<>>, <<32, 117, 32>>}
TypedMasters == {<<112, 119>>}
TypedSites == {<<115>>, <<116>>}
TypedVersions == {0, 1, 2, 3}
TypedLengths == {7, 8, 9}

\* prompt_geti accepts a number between min_val and max_val
Accepted(value, min_val, max_val) == value >= min_val /\ value <= max_val

IaFresh ==
    [pc |-> "username", username |-> <<>>, master_password |-> <<>>,
     site_name |-> <<>>, typed_version |-> 0, password_version |-> 0,
     password_length |-> 0, asked_again |-> FALSE,
     echo |-> [username |-> <<>>, site_name |-> <<>>, length |-> 0,
               version |-> 0, result |-> <<>>]]

IaIdle == ia = IaFresh

iaFrame == <<rngVars, pair, uni, ser, sk, sh, bs, fy, lateVars>>

\* username = prompt_gets("Username / Email : ")
IaUsername ==
    /\ ia.pc = "username"
    /\ \E line \in TypedNames :
          ia' = [ia EXCEPT !.pc = "master", !.username = trim(line)]
    /\ UNCHANGED <<gp, iaFrame>>

\* master_password = prompt_gets("Master Password : ")
IaMaster ==
    /\ ia.pc = "master"
    /\ \E line \in TypedMasters :
          ia' = [ia EXCEPT !.pc = "site", !.master_password = trim(line)]
    /\ UNCHANGED <<gp, iaFrame>>

\* site_name = prompt_gets("Site / Domain : ")
IaSite ==
    /\ ia.pc = "site"
    /\ \E line \in TypedSites :
          ia' = [ia EXCEPT !.pc = "version", !.site_name = trim(line)]
    /\ UNCHANGED <<gp, iaFrame>>

\* password_version = prompt_geti("Version (counter) [1-999999] : ", 1,
\* 999999): a number out of range is asked for again
IaVersion ==
    /\ ia.pc = "version"
    /\ \E value \in TypedVersions :
          ia' = IF Accepted(value, 1, 999999)
                THEN [ia EXCEPT !.pc = "length", !.typed_version = value,
                                !.password_version = value]
                ELSE [ia EXCEPT !.asked_again = TRUE]
    /\ UNCHANGED <<gp, iaFrame>>

\* password_length = prompt_geti("Length [8-64] : ", 8, 64)
IaLength ==
    /\ ia.pc = "length"
    /\ \E value \in TypedLengths :
          ia' = IF Accepted(value, 8, 64)
                THEN [ia EXCEPT !.pc = "call", !.password_length = value]
                ELSE [ia EXCEPT !.asked_again = TRUE]
    /\ UNCHANGED <<gp, iaFrame>>

\* the arguments of the call: the argument "password_version = 1" assigns 1
\* to the local variable and passes it
CallArgs ==
    [U |-> ia.username, P |-> ia.master_password, S |-> ia.site_name,
     L |-> ia.password_length, V |-> 1,
     upper |-> STONEPASS_UPPERCASE, lower |-> STONEPASS_LOWERCASE,
     digits |-> STONEPASS_DIGITS, symbols |-> STONEPASS_SYMBOLS,
     ru |-> TRUE, rl |-> TRUE, rd |-> TRUE, rs |-> TRUE]

\* generate_password(...) is called: its input validation
IaGenerate ==
    /\ ia.pc = "call"
    /\ ia' = [ia EXCEPT !.pc = "called", !.password_version = 1]
    /\ gp' = [GpFresh EXCEPT !.in = CallArgs,
                             !.msg = Validate(CallArgs),
                             !.pc = IF Validate(CallArgs) = "" THEN "validated"
                                    ELSE "threw"]
    /\ UNCHANGED iaFrame

\* generate_password returned: the inputs and the password are written out
IaEcho ==
    /\ ia.pc = "called" /\ gp.pc = "returned"
    /\ ia' = [ia EXCEPT
                !.pc = "echoed",
                !.echo = [username |-> ia.username, site_name |-> ia.site_name,
                          length |-> ia.password_length,
                          version |-> ia.password_version,
                          result |-> gp.password]]
    /\ UNCHANGED <<gp, iaFrame>>

\* generate_password threw: the exception leaves the function
IaThrew ==
    /\ ia.pc = "called" /\ gp.pc = "threw"
    /\ ia' = [ia EXCEPT !.pc = "threw"]
    /\ UNCHANGED <<gp, iaFrame>>

\* prompt_gets("Press <Enter> to clear the screen : ") and the 60 newlines
IaClear ==
    /\ ia.pc = "echoed"
    /\ ia' = [ia EXCEPT !.pc = "cleared"]
    /\ UNCHANGED <<gp, iaFrame>>


\* ------------------------------------------------------- butterfly loops

\* the largest m_cost the loops are run with
TopoBits == 4

\* start += 2 * span
NextStart_by_span(start, span) == start + span

NextStart(start, span) == start + 2 * span

RECURSIVE Settled(_)
\* the loop headers of Phase 2, from the innermost outwards: the position l
\* is moved on until a condition lets the body run, or the rounds are over
Settled(l) ==
    IF l.round >= l.t_cost THEN [l EXCEPT !.pc = "done"]
    ELSE IF l.span >= l.n_blocks
    THEN Settled([l EXCEPT !.round = @ + 1, !.span = 1, !.start = 0, !.k = 0])
    ELSE IF l.start >= l.n_blocks
    THEN Settled([l EXCEPT !.span = @ * 2, !.start = 0, !.k = 0])
    ELSE IF l.k >= l.span
    THEN Settled([l EXCEPT !.start = NextStart(@, l.span), !.k = 0])
    ELSE l

BfFresh ==
    [pc |-> "idle", n_blocks |-> 1, t_cost |-> 0, round |-> 0, span |-> 1,
     start |-> 0, k |-> 0, visited |-> <<>>]

BfIdle == bf = BfFresh

bfFrame == <<rngVars, pair, uni, gp, restVars, cp, ui>>

\* StoneKey reaches Phase 2 with n_blocks = 1 << m_cost and a t_cost >= 1
BfEnter ==
    /\ bf.pc \in {"idle", "done"}
    /\ \E m_cost \in 0 .. TopoBits, t_cost \in 1 .. STONEKEY_V2_T_COST :
          bf' = Settled([BfFresh EXCEPT !.pc = "mix",
                                        !.n_blocks = 2 ^ m_cost,
                                        !.t_cost = t_cost])
    /\ UNCHANGED bfFrame

\* one run of the innermost body on a = start + k and b = a + span, then ++k
\* and the loop headers
BfBody ==
    /\ bf.pc = "mix"
    /\ bf' = Settled([bf EXCEPT
                !.visited = Append(@, <<bf.round, bf.span, bf.start + bf.k,
                                        bf.start + bf.k + bf.span>>),
                !.k = @ + 1])
    /\ UNCHANGED bfFrame

\* ------------------------------------------------- Compressor, step by step

\* the most blocks a Compressor absorbs
MaxBlocks == 2

\* the blocks update is called with: the all-zero block and a block with
\* every word different
CpBlocks == <<ZeroBlock, [i \in WordIdx |-> i % U32Mod]>>

\* Block64 state{}: a Compressor as constructed; absorbed lists the blocks
\* passed to update, total, h and digest are of the last finalize; sponges
\* and entering are of the hash objects finalized at byte width below
CpFresh ==
    [pc |-> "idle", state |-> ZeroBlock, absorbed |-> <<>>, total |-> 0,
     h |-> ZeroBlock, digest |-> ZeroBlock, sponges |-> <<>>,
     entering |-> <<>>]

CpIdle == cp = CpFresh

cpFrame == <<rngVars, pair, uni, gp, restVars, bf, ui>>

\* a Compressor is constructed
CpNew ==
    /\ cp.pc \in {"idle", "final"}
    /\ cp' = [CpFresh EXCEPT !.pc = "absorbing"]
    /\ UNCHANGED cpFrame

\* update(block)
CpUpdate ==
    /\ cp.pc \in {"absorbing", "final"}
    /\ Len(cp.absorbed) < MaxBlocks
    /\ \E b \in 1 .. Len(CpBlocks) :
          cp' = [CpFresh EXCEPT
                    !.pc = "absorbing",
                    !.state = Compressor_update(cp.state, CpBlocks[b]),
                    !.absorbed = Append(cp.absorbed, b)]
    /\ UNCHANGED cpFrame

\* finalize(total_bytes), a const member: h is the block its permutation is
\* applied to
CpFinalize ==
    /\ cp.pc = "absorbing"
    /\ \E total_bytes \in 0 .. U64Max :
          cp' = [cp EXCEPT
                    !.pc = "final",
                    !.total = total_bytes,
                    !.h = FinalBlock(cp.state, rotl64(total_bytes, 3)),
                    !.digest = Compressor_finalize(cp.state, total_bytes)]
    /\ UNCHANGED cpFrame

\* ------------------------------------------- the final block, byte by byte

\* The words above are WordBits wide. The final block of a short message is
\* modelled here at its real width, as the 64 bytes of the Block64 union on
\* a little-endian build: byte 4 * i + j is byte j of u32[i], and u32[12]
\* and u32[13] are bytes 48..55.

\* the most update calls a hash object receives
MaxUpdates == 3

\* what update is called with: runs of zero bytes and single bytes
PadRuns == {16, 48}
PadBytes == {0, 1, 8, 144}
PadStrings ==
    {[k \in 1 .. n |-> 0] : n \in PadRuns} \cup {<<b>> : b \in PadBytes}

\* the eight bytes of a uint64_t below 2^31, low byte first
LeBytes(v) ==
    [j \in 0 .. 7 |-> IF j > 3 THEN 0 ELSE (v \div (256 ^ j)) % 256]

\* std::rotl(x, 3) on the eight bytes of a uint64_t: every byte moves up
\* three bits and takes the top three bits of the byte below it, byte 0
\* those of byte 7
Rotl3Bytes(t) ==
    [j \in 0 .. 7 |-> ((t[j] * 8) % 256) + (t[(j + 7) % 8] \div 32)]

\* Compressor::finalize(total_bytes) up to its permutation, on the bytes of
\* h: u32[0] ^= 0x01, u32[12] and u32[13] ^= the halves of bit_len
FinalBytes(h, total_bytes) ==
    [k \in 0 .. 63 |->
        IF k = 0 THEN XorBits(h[k], 1)
        ELSE IF k \in 48 .. 55
        THEN XorBits(h[k], Rotl3Bytes(LeBytes(total_bytes))[k - 48])
        ELSE h[k]]

\* the residual pending bytes, zero-padded to 64 bytes, XORed into the
\* state of a hash object that has compressed no block, which is zero
Residual(pending) == [k \in 0 .. 63 |-> XorBits(0, ByteAt(pending, k + 1))]

\* a hash object as constructed, with the number of update calls made
PadSponge == [pending |-> <<>>, total |-> 0, updates |-> 0]

\* two hash objects are constructed
PadNew ==
    /\ cp.pc = "idle"
    /\ cp' = [CpFresh EXCEPT !.pc = "padding",
                             !.sponges = <<PadSponge, PadSponge>>]
    /\ UNCHANGED cpFrame

\* update(bytes) on one of them, the message staying below 64 bytes so
\* that the pending buffer never fills
PadUpdate ==
    /\ cp.pc = "padding"
    /\ \E w \in 1 .. 2, bytes \in PadStrings :
          /\ cp.sponges[w].updates < MaxUpdates
          /\ Len(cp.sponges[w].pending) + Len(bytes) < 64
          /\ cp' = [cp EXCEPT
                       !.sponges[w].pending = @ \o bytes,
                       !.sponges[w].total = @ + Len(bytes),
                       !.sponges[w].updates = @ + 1]
    /\ UNCHANGED cpFrame

\* finalize() on both: entering holds the two blocks the final permutation
\* is applied to
PadFinalize ==
    /\ cp.pc = "padding"
    /\ cp' = [cp EXCEPT
                 !.pc = "padded",
                 !.entering =
                    [w \in 1 .. 2 |->
                        FinalBytes(Residual(cp.sponges[w].pending),
                                   cp.sponges[w].total)]]
    /\ UNCHANGED cpFrame

\* ------------------------------------------------------ the Windows form

\* the most characters the model lets a STRING_INPUT and an INT_INPUT hold
MaxTyped == 1
MaxDigits == 2

\* fields.push_back(...) of generate_password_interactive, indexed from 0
Field(type, value_str, value_int, max_len, button_text) ==
    [type |-> type, value_str |-> value_str, value_int |-> value_int,
     max_len |-> max_len, button_text |-> button_text]

FormFields ==
    [i \in 0 .. 9 |->
        CASE i = 2 -> Field("STRING_INPUT", <<>>, 0, 60, "")
          [] i = 3 -> Field("STRING_INPUT", <<>>, 0, 80, "")
          [] i = 4 -> Field("STRING_INPUT", <<>>, 0, 80, "")
          [] i = 5 -> Field("INT_INPUT", <<49>>, 1, 8, "")
          [] i = 6 -> Field("INT_INPUT", <<50, 48>>, 20, 3, "")
          [] i = 8 -> Field("BUTTON", <<>>, 0, 0, "Generate")
          [] i = 9 -> Field("BUTTON", <<>>, 0, 0, "Exit")
          [] OTHER -> Field("DISPLAY", <<>>, 0, 30, "")]

\* is_focusable(f)
is_focusable(f) == f.type \in {"STRING_INPUT", "INT_INPUT", "BUTTON"}

RECURSIVE FocusLoop(_, _, _, _)
\* the do-while of move_focus, steps iterations made so far
FocusLoop(direction, fields, active, steps) ==
    IF is_focusable(fields[(active + direction) % 10]) THEN (active + direction) % 10
    ELSE IF steps + 1 < 10
    THEN FocusLoop(direction, fields, (active + direction) % 10, steps + 1)
    ELSE (active + direction) % 10

\* move_focus(direction, fields, active): the new active
move_focus(direction, fields, active) == FocusLoop(direction, fields, active, 0)

RECURSIVE FirstFocusable(_, _)
\* while (!is_focusable(fields[active])) active++
FirstFocusable(fields, active) ==
    IF is_focusable(fields[active]) THEN active
    ELSE FirstFocusable(fields, active + 1)

\* isdigit(ch)
isdigit(ch) == ch >= 48 /\ ch <= 57

RECURSIVE DigitsValue(_)
DigitsValue(str) ==
    IF Len(str) = 0 THEN 0
    ELSE 10 * DigitsValue(SubSeq(str, 1, Len(str) - 1)) + (str[Len(str)] - 48)

\* std::stoi(value_str) on a non-empty string of an optional '-' and digits:
\* a lone '-' throws std::invalid_argument
stoi(str) ==
    IF str = <<45>> THEN [ok |-> FALSE, value |-> 0]
    ELSE IF Head(str) = 45 THEN [ok |-> TRUE, value |-> 0 - DigitsValue(Tail(str))]
    ELSE [ok |-> TRUE, value |-> DigitsValue(str)]

\* paint(fields, active): value_int of every INT_INPUT follows value_str; a
\* string stoi rejects leaves the old number
paint(fields) ==
    [i \in 0 .. 9 |->
        IF fields[i].type # "INT_INPUT" THEN fields[i]
        ELSE IF fields[i].value_str = <<>> THEN [fields[i] EXCEPT !.value_int = 0]
        ELSE IF stoi(fields[i].value_str).ok
        THEN [fields[i] EXCEPT !.value_int = stoi(fields[i].value_str).value]
        ELSE fields[i]]

\* the characters typed: '8' and '-'
TypedChars == {56, 45}

\* the byte _getch() hands out as ch2 when _kbhit() finds a second keystroke
\* waiting behind an ordinary key: none, or an Esc pressed right after it
SecondBytes == {0, 27}

\* the arrow keys: the byte 224 and a code
ArrowsForward == {77, 80}
ArrowsBack == {75, 72}

\* the most characters field f takes
FieldMax(f) ==
    IF f.type = "STRING_INPUT"
    THEN (IF f.max_len < MaxTyped THEN f.max_len ELSE MaxTyped)
    ELSE (IF f.max_len < MaxDigits THEN f.max_len ELSE MaxDigits)

\* Backspace on field f
Erased(f) ==
    IF f.type \in {"STRING_INPUT", "INT_INPUT"} /\ Len(f.value_str) > 0
    THEN [f EXCEPT !.value_str = SubSeq(@, 1, Len(@) - 1)]
    ELSE f

\* a character between 32 and 126 on field f
Typed(f, ch) ==
    IF f.type = "STRING_INPUT" /\ Len(f.value_str) < FieldMax(f)
    THEN [f EXCEPT !.value_str = Append(@, ch)]
    ELSE IF /\ f.type = "INT_INPUT"
            /\ (ch = 45 /\ Len(f.value_str) = 0) \/ isdigit(ch)
            /\ Len(f.value_str) < FieldMax(f)
    THEN [f EXCEPT !.value_str = Append(@, ch)]
    ELSE f

UiFresh ==
    [pc |-> "idle", fields |-> FormFields, active |-> 0, closed_by |-> "none",
     esc_ignored |-> FALSE, called |-> FALSE,
     echo |-> [username |-> <<>>, site_name |-> <<>>, length |-> 0,
               version |-> 0, result |-> <<>>]]

UiIdle == ui = UiFresh

uiFrame == <<rngVars, pair, uni, restVars, bf, cp>>

\* one turn of run_ui's loop on the bytes ch and ch2
Pressed(ch, ch2) ==
    IF ch = 9 \/ (ch = 224 /\ ch2 \in ArrowsForward)
    THEN [ui EXCEPT !.active = move_focus(1, ui.fields, @),
                    !.fields = paint(@),
                    !.esc_ignored = @ \/ (ch = 9 /\ ch2 = 27)]
    ELSE IF ch = 224 /\ ch2 \in ArrowsBack
    THEN [ui EXCEPT !.active = move_focus(0 - 1, ui.fields, @),
                    !.fields = paint(@)]
    ELSE IF ch = 27
    THEN [ui EXCEPT !.pc = "returned", !.closed_by = "esc"]
    ELSE IF ch = 13 /\ ui.fields[ui.active].type = "BUTTON"
    THEN [ui EXCEPT !.pc = "returned", !.closed_by = "enter",
                    !.esc_ignored = @ \/ ch2 = 27]
    ELSE IF ch = 8
    THEN [ui EXCEPT !.fields = paint([@ EXCEPT ![ui.active] = Erased(@)]),
                    !.esc_ignored = @ \/ ch2 = 27]
    ELSE IF ch >= 32 /\ ch <= 126
    THEN [ui EXCEPT !.fields = paint([@ EXCEPT ![ui.active] = Typed(@, ch)]),
                    !.esc_ignored = @ \/ ch2 = 27]
    ELSE [ui EXCEPT !.fields = paint(@), !.esc_ignored = @ \/ ch2 = 27]

\* generate_password_interactive builds the form and run_ui starts: the
\* first focusable field is active and the form is painted
UiOpen ==
    /\ ui.pc = "idle"
    /\ ui' = [ui EXCEPT !.pc = "form", !.fields = paint(FormFields),
                        !.active = FirstFocusable(FormFields, 0)]
    /\ UNCHANGED <<gp, uiFrame>>

\* Tab, Right or Down
UiForward ==
    /\ ui.pc = "form"
    /\ \/ \E ch2 \in SecondBytes : ui' = Pressed(9, ch2)
       \/ \E ch2 \in ArrowsForward : ui' = Pressed(224, ch2)
    /\ UNCHANGED <<gp, uiFrame>>

\* Left or Up
UiBack ==
    /\ ui.pc = "form"
    /\ \E ch2 \in ArrowsBack : ui' = Pressed(224, ch2)
    /\ UNCHANGED <<gp, uiFrame>>

\* Esc
UiEsc ==
    /\ ui.pc = "form"
    /\ ui' = Pressed(27, 0)
    /\ UNCHANGED <<gp, uiFrame>>

\* Enter
UiEnter ==
    /\ ui.pc = "form"
    /\ \E ch2 \in SecondBytes : ui' = Pressed(13, ch2)
    /\ UNCHANGED <<gp, uiFrame>>

\* Backspace
UiBackspace ==
    /\ ui.pc = "form"
    /\ \E ch2 \in SecondBytes : ui' = Pressed(8, ch2)
    /\ UNCHANGED <<gp, uiFrame>>

\* a digit or a sign
UiType ==
    /\ ui.pc = "form"
    /\ \E ch \in TypedChars, ch2 \in SecondBytes : ui' = Pressed(ch, ch2)
    /\ UNCHANGED <<gp, uiFrame>>

\* the arguments of the call: the fields' values, and "password_version = 1"
UiCallArgs ==
    [U |-> ui.fields[2].value_str, P |-> ui.fields[3].value_str,
     S |-> ui.fields[4].value_str, L |-> ui.fields[6].value_int, V |-> 1,
     upper |-> STONEPASS_UPPERCASE, lower |-> STONEPASS_LOWERCASE,
     digits |-> STONEPASS_DIGITS, symbols |-> STONEPASS_SYMBOLS,
     ru |-> TRUE, rl |-> TRUE, rd |-> TRUE, rs |-> TRUE]

\* run_ui returned the active field: if (fields[active].button_text ==
\* "Generate") generate_password is called, else the function returns
UiDecide ==
    /\ ui.pc = "returned"
    /\ IF ui.fields[ui.active].button_text = "Generate"
       THEN /\ ui' = [ui EXCEPT !.pc = "called", !.called = TRUE]
            /\ gp' = [GpFresh EXCEPT
                        !.in = UiCallArgs,
                        !.msg = Validate(UiCallArgs),
                        !.pc = IF Validate(UiCallArgs) = "" THEN "validated"
                               ELSE "threw"]
       ELSE /\ ui' = [ui EXCEPT !.pc = "quit"]
            /\ gp' = gp
    /\ UNCHANGED uiFrame

\* generate_password returned: the inputs and the password are written out
UiEcho ==
    /\ ui.pc = "called" /\ gp.pc = "returned"
    /\ ui' = [ui EXCEPT
                !.pc = "echoed",
                !.echo = [username |-> gp.in.U, site_name |-> gp.in.S,
                          length |-> gp.in.L, version |-> gp.in.V,
                          result |-> gp.password]]
    /\ UNCHANGED <<gp, uiFrame>>

\* generate_password threw: the exception leaves the function
UiThrew ==
    /\ ui.pc = "called" /\ gp.pc = "threw"
    /\ ui' = [ui EXCEPT !.pc = "threw"]
    /\ UNCHANGED <<gp, uiFrame>>

\* "Press any key to clear the screen."
UiAnyKey ==
    /\ ui.pc = "echoed"
    /\ ui' = [ui EXCEPT !.pc = "cleared"]
    /\ UNCHANGED <<gp, uiFrame>>

\* ---------------------------------------------------------- specifications

\* the components added last stay as constructed
LateIdle == BfIdle /\ CpIdle /\ UiIdle

\* the components a specification does not run stay as constructed
RestIdle == SerIdle /\ SkIdle /\ ShIdle /\ BsIdle /\ FyIdle /\ IaIdle /\ LateIdle


InitRNG == RngIdle /\ PairIdle /\ UniIdle /\ GpIdle /\ RestIdle

NextRNG == Construct \/ ConstructDefault \/ Call \/ Unbiased \/ Discard \/ Reseed

\* one generator under every sequence of its operations
SpecRNG == InitRNG /\ [][NextRNG]_vars

InitPair == RngIdle /\ PairIdle /\ UniIdle /\ GpIdle /\ RestIdle

NextPair ==
    \/ PairConstructA \/ PairEntropy \/ PairConstructB
    \/ PairCall \/ PairUnbiased \/ PairDiscard

\* two generators constructed alike, driven by the same calls
SpecPair == InitPair /\ [][NextPair]_vars

InitUniform == RngIdle /\ PairIdle /\ UniStart /\ GpIdle /\ RestIdle

NextUniform == TallyAccept \/ TallyReject

\* unbiased's acceptance test and mapping applied to every raw word
SpecUniform == InitUniform /\ [][NextUniform]_vars

InitPass == RngIdle /\ PairIdle /\ UniIdle /\ GpIdle /\ RestIdle

NextPass ==
    Invoke \/ Derive \/ DrawRequired \/ FillDraw \/ Shuffle \/ Return

\* generate_password invoked again and again
SpecPass == InitPass /\ [][NextPass]_vars

InitStream == RngIdle /\ PairIdle /\ UniIdle /\ GpIdle /\ RestIdle

NextStream ==
    \/ SerConstructX \/ SerConstructY \/ SerCall \/ SerDiscard \/ SerReseed
    \/ SerWrite \/ SerCut \/ SerOverwrite \/ SerRead \/ SerMove

\* two generator objects: operations, serialization from x, restore and
\* move into y
SpecStream == InitStream /\ [][NextStream]_vars

InitKey == RngIdle /\ PairIdle /\ UniIdle /\ GpIdle /\ RestIdle

NextKey ==
    \/ SkInvoke \/ SkFill \/ SkSeed \/ SkButterfly \/ SkMixed
    \/ SkCompress \/ SkFinalMix \/ SkWipe \/ SkReturn

\* StoneKey called again and again, one loop iteration at a time
SpecKey == InitKey /\ [][NextKey]_vars

InitHash ==
    /\ RngIdle /\ PairIdle /\ UniIdle /\ GpIdle
    /\ SerIdle /\ SkIdle /\ ShStart /\ BsIdle /\ FyIdle /\ IaIdle /\ LateIdle

NextHash == ShUpdate \/ ShFinalize

\* one message absorbed by StoneHash in every chunking
SpecHash == InitHash /\ [][NextHash]_vars

InitLayout ==
    /\ RngIdle /\ PairIdle /\ UniIdle /\ GpIdle
    /\ SerIdle /\ SkIdle /\ ShIdle /\ BsStart /\ FyIdle /\ IaIdle /\ LateIdle

NextLayout == BsBuild64 \/ BsBuild96

\* the two state builders applied to a key, a nonce and a counter
SpecLayout == InitLayout /\ [][NextLayout]_vars

InitShuffle ==
    /\ RngIdle /\ PairIdle /\ UniIdle /\ GpIdle
    /\ SerIdle /\ SkIdle /\ ShIdle /\ BsIdle /\ FyStart /\ IaIdle /\ LateIdle

NextShuffle == FySwap \/ FyAgain

\* the Fisher-Yates loop of generate_password, j ranging over all it can be
SpecShuffle == InitShuffle /\ [][NextShuffle]_vars

InitInteractive == RngIdle /\ PairIdle /\ UniIdle /\ GpIdle /\ RestIdle

NextInteractive ==
    \/ IaUsername \/ IaMaster \/ IaSite \/ IaVersion \/ IaLength
    \/ IaGenerate \/ Derive \/ DrawRequired \/ FillDraw \/ Shuffle \/ Return
    \/ IaEcho \/ IaThrew \/ IaClear

\* the portable interactive flow: prompts, generate_password, echo
SpecInteractive == InitInteractive /\ [][NextInteractive]_vars

InitButterfly == RngIdle /\ PairIdle /\ UniIdle /\ GpIdle /\ RestIdle

NextButterfly == BfEnter \/ BfBody

\* the loop nest of Phase 2 for every arena size and round count
SpecButterfly == InitButterfly /\ [][NextButterfly]_vars

InitCompressor == RngIdle /\ PairIdle /\ UniIdle /\ GpIdle /\ RestIdle

NextCompressor == CpNew \/ CpUpdate \/ CpFinalize

\* a Compressor absorbing blocks and finalized with every length
SpecCompressor == InitCompressor /\ [][NextCompressor]_vars

InitPadding == RngIdle /\ PairIdle /\ UniIdle /\ GpIdle /\ RestIdle

NextPadding == PadNew \/ PadUpdate \/ PadFinalize

\* two hash objects absorbing short messages and finalized
SpecPadding == InitPadding /\ [][NextPadding]_vars

InitForm == RngIdle /\ PairIdle /\ UniIdle /\ GpIdle /\ RestIdle

NextForm ==
    \/ UiOpen \/ UiForward \/ UiBack \/ UiEsc \/ UiEnter \/ UiBackspace
    \/ UiType \/ UiDecide \/ Derive \/ DrawRequired \/ FillDraw \/ Shuffle
    \/ Return \/ UiEcho \/ UiThrew \/ UiAnyKey

\* the Windows interactive flow: the form, generate_password, the echo
SpecForm == InitForm /\ [][NextForm]_vars

\* ---------------------------------------------------- claims on StoneRNG

Min(a, b) == IF a < b THEN a ELSE b
Max(a, b) == IF a < b THEN b ELSE a

\* C7: unbiased(lo, hi) returns a value between min(lo, hi) and max(lo, hi);
\* with lo = hi it returns lo and leaves the generator untouched; over the
\* full range it returns exactly one raw word; on the path that computes
\* range = hi - lo + 1 the sum does not wrap.
C7_UnbiasedInBounds ==
    (last.op = "unbiased" /\ last.err = "none") =>
        /\ Min(last.lo, last.hi) <= last.val
        /\ last.val <= Max(last.lo, last.hi)
        /\ (last.lo = last.hi =>
                /\ last.val = last.lo
                /\ last.consumed = 0
                /\ rng.word_index = last.pre_index
                /\ rng.block_counter = last.pre_counter)
        /\ (Max(last.lo, last.hi) - Min(last.lo, last.hi) = U64Max =>
                /\ last.consumed = 1
                /\ last.val = U64At(rng.buffer, rng.word_index - 1))
        /\ (last.path = "reject" => last.wide >= 2 /\ last.wide <= U64Max)

\* C7 witness: a swapped pair of bounds went through the rejection loop
C7_Witness ==
    /\ last.op = "unbiased" /\ last.err = "none"
    /\ last.lo > last.hi /\ last.path = "reject" /\ last.consumed >= 1

\* two outcomes agree: both threw, or both returned the same word and left
\* the same key, nonce, block_counter and word_index
SameOutcome(a, b) ==
    /\ (a.err = "none") = (b.err = "none")
    /\ (a.err = "none" =>
            /\ a.val = b.val
            /\ a.rng.key = b.rng.key
            /\ a.rng.nonce = b.rng.nonce
            /\ a.rng.block_counter = b.rng.block_counter
            /\ a.rng.word_index = b.rng.word_index)

\* C8: from every reachable generator state and every n, discard(n) followed
\* by one operator() gives the word and the state that n + 1 calls of
\* operator() give, and one sequence throws exactly when the other does.
C8_DiscardEquivalence ==
    alive => \A n \in (0 .. MaxDiscard) \cup {FarDiscard} :
                SameOutcome(ThenCall(discard(rng, n)), CallTimes(rng, n + 1))

\* C8 witness: a discard skipped a whole block and landed inside the next,
\* and the generator went on to a position inside a block
C8_Witness ==
    /\ alive /\ last.op = "discard" /\ last.err = "none" /\ last.n = 17
    /\ last.pre_index \in 1 .. 7 /\ rng.word_index \in 1 .. 7

\* C9 (as claimed): once refill_buffer has raised the exhaustion error,
\* every later operation on that generator that takes words from the
\* keystream (operator(), unbiased over more than a point, discard of n > 0)
\* fails too
C9_NoWordAfterExhaustion ==
    (/\ last.was_exhausted
     /\ \/ last.op = "call"
        \/ last.op = "unbiased" /\ last.lo # last.hi
        \/ last.op = "discard" /\ last.n > 0)
        => last.err # "none"


C6_ExactUniformity ==
    uni.w = U64Mod =>
        \A v1 \in uni.lo .. uni.hi, v2 \in uni.lo .. uni.hi :
            uni.count[v1] = uni.count[v2]

\* ------------------------------------------------ claims on generate_password

\* the bytes of a string, as a set
BytesIn(str) == {str[k] : k \in 1 .. Len(str)}

\* the union of the required categories' character sets
RequiredUnion(in) ==
    UNION {BytesIn(CatChars(in, c)) : c \in {d \in 1 .. 4 : CatRequired(in, d)}}

\* C1 (as claimed): a returned password has length exactly L, holds at least
\* one character of each required category's set, and all its characters lie
\* in the union of the required categories' sets, for every combination of
\* the flags, the one with no category required included
C1_PolicyConformance ==
    gp.pc = "returned" =>
        /\ Len(gp.password) = gp.in.L
        /\ \A c \in 1 .. 4 :
              CatRequired(gp.in, c) =>
                  BytesIn(gp.password) \cap BytesIn(CatChars(gp.in, c)) # {}
        /\ BytesIn(gp.password) \subseteq RequiredUnion(gp.in)

\* C2 (as claimed): an invocation with the arguments of the first invocation
\* ends as the first one did, and if they returned, with the same string
C2_Determinism ==
    (Ended /\ gp.first.set /\ gp.first.in = gp.in) =>
        /\ gp.first.pc = gp.pc
        /\ (gp.pc = "returned" => gp.first.password = gp.password)

\* the arguments the validation has to reject
MustReject(in) ==
    \/ in.U = <<>> \/ in.P = <<>> \/ in.S = <<>>
    \/ in.L < 6 \/ in.L > 128
    \/ in.V < 1
    \/ \E c \in 1 .. 4 : CatRequired(in, c) /\ CatChars(in, c) = <<>>
    \/ in.L < Cardinality({c \in 1 .. 4 : CatRequired(in, c)})

\* C3: an invocation with an empty U, P or S, L outside 6..128, V < 1, a
\* required category with an empty set, or L below the number of required
\* categories throws invalid_argument, returns no password, and has not
\* called the KDF.
C3_ValidationBeforeKDF ==
    (gp.pc # "idle" /\ MustReject(gp.in)) =>
        /\ gp.pc = "threw"
        /\ gp.msg # "" /\ gp.msg # "exhausted"
        /\ gp.kdf_calls = 0
        /\ gp.password = <<>>

\* C3 witness: after an invocation that derived a key and returned, an
\* invocation with V < 1 and otherwise valid arguments has thrown
C3_Witness ==
    /\ gp.pc = "threw" /\ gp.in.V < 1 /\ gp.in.L = 6 /\ gp.in.U # <<>>
    /\ gp.first.set /\ gp.first.pc = "returned"

\* the context string as documented: every NUL and every label present
DocumentedContext(in) ==
    <<83, 116, 111, 110, 101, 80, 97, 115, 115, 119, 111, 114, 100, 95, 118,
      49, 46, 48>> \o <<0>> \o to_string(in.V) \o <<0>>
      \o in.U \o <<0>> \o in.S \o <<0>>
      \o <<108, 101, 110, 58>> \o to_string(in.L)
      \o <<0, 117, 112, 112, 101, 114, 58>> \o FlagStr(in.ru)
      \o <<0, 108, 111, 119, 101, 114, 58>> \o FlagStr(in.rl)
      \o <<0, 100, 105, 103, 105, 116, 115, 58>> \o FlagStr(in.rd)
      \o <<0, 115, 121, 109, 98, 111, 108, 115, 58>> \o FlagStr(in.rs)

\* C4 (as claimed): the context handed to StoneKey is "StonePassword_v1.0"
\* NUL V NUL U NUL S NUL "len:" L NUL "upper:" b NUL "lower:" b NUL
\* "digits:" b NUL "symbols:" b, byte for byte
C4_ContextBytes ==
    gp.kdf_calls > 0 => gp.context = DocumentedContext(gp.in)

\* the components of the arguments that the context is built from
ContextTuple(in) == <<in.U, in.S, in.V, in.L, in.ru, in.rl, in.rd, in.rs>>

\* C5 (as claimed): two invocations whose (U, S, V, L, flags) differ in some
\* component hand different context strings to StoneKey
C5_ContextInjective ==
    (gp.kdf_calls > 0 /\ gp.first.set /\ gp.first.context # <<>>
        /\ ContextTuple(gp.first.in) # ContextTuple(gp.in)) =>
            gp.first.context # gp.context

\* ------------------------- claims on equality, serialization and moves

\* outputs compared after two generators are found equal
FutureCalls == 9

\* the next k outcomes of operator() agree on the generators a and b
SameFuture(a, b) ==
    \A k \in 1 .. FutureCalls : Seen(CallTimes(a, k)) = Seen(CallTimes(b, k))

\* C11: two generators that compare equal with operator== return the same
\* future outputs, in every state reached by construction, draws, discard,
\* reseed, restore and move, errors being caught
C11_EqualitySoundness ==
    (ser.phase = "both" /\ Equal(ser.x, ser.y)) => SameFuture(ser.x, ser.y)

\* C26: operator== returns true whenever x and y have the same key and nonce
\* and return the same future outputs, as a generator that used up its
\* block and one constructed on the next block do (the other direction of
\* the "if and only if" is C11's)
C26_EqualityCompleteness ==
    (/\ ser.phase = "both"
     /\ ser.x.key = ser.y.key /\ ser.x.nonce = ser.y.nonce
     /\ SameFuture(ser.x, ser.y)) => Equal(ser.x, ser.y)

\* word_index is in 0..8 and a buffer with words left is the block of
\* block_counter - 1
BufferConsistent(r) ==
    /\ r.word_index \in 0 .. 8
    /\ r.word_index < 8 =>
          r.buffer = Keystream(r.key, r.nonce, (r.block_counter - 1) % U64Mod)

\* C27: in every state reached by construction, draws, discard, reseed,
\* restore and move, errors being caught, word_index is in 0..8 and, when
\* it is below 8, the buffer is the ChaCha block of key, nonce and
\* block_counter - 1 mod 2^64
C27_BufferConsistency ==
    /\ ser.phase \in {"x", "both"} => BufferConsistent(ser.x)
    /\ ser.phase = "both" => BufferConsistent(ser.y)

\* C28: an operator>> that fails leaves the key, the nonce, block_counter,
\* word_index and the buffer of its target as they were before the call
C28_FailedRestoreUnchanged ==
    [][(/\ ser'.op = "read" /\ ser'.steps = ser.steps + 1
        /\ ser'.err # "none") => ser'.y = ser.y]_vars

\* the 65 bytes x wrote have the documented layout
LayoutOf(r, s) ==
    /\ Len(s) = 65
    /\ SubSeq(s, 1, 8) = Magic
    /\ s[9] = 1
    /\ WordsOf(SubSeq(s, 10, 41), 8) = r.key
    /\ WordsOf(SubSeq(s, 42, 49), 2) = r.nonce
    /\ U64Of(SubSeq(s, 50, 57)) = r.block_counter
    /\ s[58] = r.word_index
    /\ \A i \in 59 .. 65 : s[i] = 0

\* C12: the bytes operator<< writes for x have the 65-byte layout, and
\* operator>> reading them into y succeeds and leaves y equal to x with the
\* same next words
C12_RoundTrip ==
    /\ ser.pristine => LayoutOf(ser.x, ser.stream)
    /\ (ser.pristine /\ ser.op = "read") =>
          /\ ser.err = "none"
          /\ Equal(ser.x, ser.y)
          /\ SameFuture(ser.x, ser.y)

\* C18: after y = std::move(x) the moved-from x does not return the word
\* that y returns
C18_MovedFromSilent ==
    ser.moved =>
        ~(/\ next_word(ser.x).err = "none"
          /\ next_word(ser.y).err = "none"
          /\ next_word(ser.x).val = next_word(ser.y).val)

\* ---------------------------------------------------- claims on StoneKey

\* the arguments StoneKey has to reject
BadKeyArgs(in) ==
    \/ Len(in.password) = 0
    \/ in.t_cost = 0
    \/ in.m_cost < 10 \/ in.m_cost > 26

\* C13: StoneKey throws invalid_argument for an empty password, for
\* t_cost = 0 and for every m_cost outside 10..26, and returns a key of 32
\* bytes for every other input
C13_ParameterRejection ==
    sk.pc \in {"fill", "returned", "threw"} =>
        IF BadKeyArgs(sk.in) THEN sk.pc = "threw"
        ELSE sk.pc = "returned" => Len(WordsBytes(sk.key, 8)) = 32

C20_DataIndependentIndexing ==
    (/\ sk.pc = "returned" /\ sk.first.set
     /\ sk.first.in.m_cost = sk.in.m_cost
     /\ sk.first.in.t_cost = sk.in.t_cost) =>
        sk.trace = sk.first.trace

\* two invocations with different passwords and contexts returned after
\* mixing an arena of more than one block
C20_Witness ==
    /\ sk.pc = "returned" /\ sk.first.set
    /\ sk.first.in.m_cost = sk.in.m_cost /\ sk.in.m_cost = ArenaBits
    /\ sk.first.in.t_cost = sk.in.t_cost
    /\ sk.first.in.password # sk.in.password
    /\ sk.first.in.context # sk.in.context
    /\ Len(sk.trace) > 3 * SkBlocks

\* --------------------------------------------------- claims on StoneHash

\* C15: absorbing a message in consecutive chunks, empty chunks and chunks
\* that cross a 64-byte boundary included, gives the digest of absorbing it
\* in one update call
C15_SpongeConsistency ==
    sh.done =>
        sh.digest = StoneHash_finalize(StoneHash_update(StoneHash_new, sh.msg))

\* a message of more than a block was absorbed in several chunks, one of them
\* empty and one crossing a block boundary
C15_Witness ==
    /\ sh.done /\ sh.chunks > 2 /\ sh.crossed /\ sh.empty
    /\ Len(sh.msg) > 64

\* ------------------------------------------------- claims on build_state

\* C16: build_state puts the constants in words 0-3, the key in words 4-11,
\* the counter's low and high halves in words 12 and 13 and the nonce in
\* words 14 and 15; the 96-bit overload puts the counter in word 12 and the
\* nonce in words 13-15
C16_StateLayout ==
    /\ bs.built # "none" =>
          /\ \A i \in 0 .. 3 : bs.state[i] = ChaCha20_constants[i + 1]
          /\ \A i \in 0 .. 7 : bs.state[4 + i] = bs.key[i]
    /\ bs.built = "64" =>
          /\ bs.state[12] + U32Mod * bs.state[13] = bs.counter
          /\ bs.state[14] = bs.nonce[0] /\ bs.state[15] = bs.nonce[1]
    /\ bs.built = "96" =>
          /\ bs.state[12] = bs.counter % U32Mod
          /\ \A i \in 0 .. 2 : bs.state[13 + i] = bs.nonce[i]

\* a state was built from a counter and a nonce no two words of which agree
C16_Witness ==
    /\ bs.built = "64"
    /\ {bs.counter % U32Mod, bs.counter \div U32Mod}
           \cap {bs.nonce[0], bs.nonce[1]} = {}
    /\ bs.counter \div U32Mod # bs.counter % U32Mod
    /\ bs.nonce[0] # bs.nonce[1]

\* ------------------------------------------------- claims on the shuffle

\* the arrangements of the positions 1 .. L
Arrangements(L) ==
    {p \in [1 .. L -> 1 .. L] : \A a, b \in 1 .. L : p[a] = p[b] => a = b}

\* the arrangements of each length
ArrangementTable == [L \in 2 .. MaxShuffle |-> Arrangements(L)]

\* the choice sequences of each length, and what each shuffles the
\* positions into
ShuffleTable ==
    [L \in 2 .. MaxShuffle |->
        [c \in ChoiceSeqs(L) |-> ShuffleOf(Positions(L), c, L - 1)]]

\* how often the character ch occurs in the password
Occurrences(password, ch) ==
    Cardinality({k \in DOMAIN password : password[k] = ch})

\* C17: the Fisher-Yates loop maps the choice sequences one-to-one onto the
\* L! arrangements of the L positions and keeps the multiset of characters
\* (the result is an arrangement, no other choice sequence leads to it, and
\* there are as many choice sequences as arrangements)
C17_ShuffleBijection ==
    fy.i = 0 =>
        /\ fy.perm \in ArrangementTable[fy.L]
        /\ fy.choices \in DOMAIN ShuffleTable[fy.L]
        /\ \A c \in DOMAIN ShuffleTable[fy.L] :
              ShuffleTable[fy.L][c] = fy.perm => c = fy.choices
        /\ Cardinality(DOMAIN ShuffleTable[fy.L])
              = Cardinality(ArrangementTable[fy.L])
        /\ \A ch \in 65 .. 67 :
              Occurrences(fy.password, ch)
                  = Occurrences(Unshuffled(fy.L), ch)

\* the longest password was shuffled with a swap at every position
C17_Witness ==
    /\ fy.i = 0 /\ fy.L = MaxShuffle
    /\ \A i \in 1 .. (fy.L - 1) : fy.choices[i] # i
    /\ fy.password # Unshuffled(fy.L)

\* ------------------------------------- claims on the interactive flow

\* C19: the version typed at the prompt is the version generate_password is
\* called with, the version in the context handed to StoneKey and the
\* version echoed afterwards
C19_VersionPassThrough ==
    /\ ia.pc \in {"called", "echoed", "cleared", "threw"} =>
          gp.in.V = ia.typed_version
    /\ (ia.pc \in {"called", "echoed", "cleared"} /\ gp.kdf_calls > 0) =>
          gp.context = ContextOf([gp.in EXCEPT !.V = ia.typed_version])
    /\ ia.pc \in {"echoed", "cleared"} =>
          ia.echo.version = ia.typed_version

\* ------------------------------------------------ claims on operator>>

\* the ways a stream is corrupted: bad magic, a version other than 1, a
\* word_index outside 0..8, fewer than 65 bytes, a mid-block state with
\* counter 0
BadMagic(s) == Len(s) >= 8 /\ SubSeq(s, 1, 8) # Magic
BadVersion(s) == Len(s) >= 9 /\ s[9] # 1
BadIndex(s) == Len(s) >= 58 /\ s[58] > 8
Truncated(s) == Len(s) < 65
MidBlockAtZero(s) ==
    Len(s) >= 58 /\ s[58] < 8 /\ U64Of(SubSeq(s, 50, 57)) = 0
Corrupted(s) ==
    \/ BadMagic(s) \/ BadVersion(s) \/ BadIndex(s) \/ Truncated(s)
    \/ MidBlockAtZero(s)

\* C22: operator>> on a stream with a bad magic, a version other than 1, a
\* word_index outside 0..8, fewer than 65 bytes or a mid-block state at
\* counter 0 ends with an error and never with a restored generator
C22_RejectsCorrupted ==
    (ser.op = "read" /\ Corrupted(ser.stream)) => ser.err # "none"

\* a whole stream describing word_index 0 at counter 0 was read and refused
C22_Witness ==
    /\ ser.op = "read" /\ ~Truncated(ser.stream)
    /\ MidBlockAtZero(ser.stream) /\ ser.err = "mid-block state at 0"

\* ------------------------------------------- claims on the butterfly loops

\* the spans of an arena of n blocks: 1, 2, 4, ... below n
Spans(n) == {s \in 1 .. n : s < n /\ \E e \in 0 .. TopoBits + 1 : s = 2 ^ e}

\* the visits of round r at span s
VisitsAt(r, s) ==
    {j \in 1 .. Len(bf.visited) : bf.visited[j][1] = r /\ bf.visited[j][2] = s}

\* the exponent of the arena size
Log2(n) == CHOOSE e \in 0 .. TopoBits + 1 : 2 ^ e = n

\* C21: in every round and for every span 1, 2, ..., N/2 the visited pairs
\* (a, b = a + span) partition the arena: b < N at every visit, no pair is
\* visited twice in a round, every block index is in exactly one pair of a
\* span, a round visits (N/2) * log2(N) pairs, and there are t_cost rounds
C21_ButterflyTopology ==
    /\ \A j \in 1 .. Len(bf.visited) :
          /\ bf.visited[j][1] \in 0 .. (bf.t_cost - 1)
          /\ bf.visited[j][2] \in Spans(bf.n_blocks)
          /\ bf.visited[j][3] >= 0
          /\ bf.visited[j][4] = bf.visited[j][3] + bf.visited[j][2]
          /\ bf.visited[j][4] < bf.n_blocks
          /\ \A i \in 1 .. (j - 1) :
                \/ bf.visited[i][1] # bf.visited[j][1]
                \/ bf.visited[i][3] # bf.visited[j][3]
                \/ bf.visited[i][4] # bf.visited[j][4]
    /\ bf.pc = "done" =>
          /\ \A r \in 0 .. (bf.t_cost - 1) :
                /\ \A s \in Spans(bf.n_blocks) : \A x \in 0 .. (bf.n_blocks - 1) :
                      Cardinality({j \in VisitsAt(r, s) :
                                      x \in {bf.visited[j][3],
                                              bf.visited[j][4]}}) = 1
                /\ 2 * Cardinality({j \in 1 .. Len(bf.visited) :
                                        bf.visited[j][1] = r})
                      = bf.n_blocks * Log2(bf.n_blocks)
          /\ 2 * Len(bf.visited) = bf.t_cost * bf.n_blocks * Log2(bf.n_blocks)

\* a whole run on the largest arena with the default round count
C21_Witness ==
    /\ bf.pc = "done" /\ bf.n_blocks = 2 ^ TopoBits
    /\ bf.t_cost = STONEKEY_V2_T_COST
    /\ Len(bf.visited) > 0

\* ------------------------------------------------ claims on the fill phase

\* the passwords StoneKey accepts among those it is called with
OtherPasswords == {in.password : in \in {k \in KeyInputs : KeyCheck(k) = ""}}

\* C24: during and after Phase 1 every block memory[i] with i >= 1 that was
\* filled is what a run with any other password and the same context
\* fills it with; only memory[0] can differ between such runs
C24_FillPassphrase ==
    sk.pc = "fill" =>
        \A i \in 1 .. (sk.i - 1) : \A p \in OtherPasswords :
            sk.memory[i] = FillBlock(p, sk.in.context, i)

\* Phase 1 is over on the larger arena, and another password fills block 0
\* differently
C24_Witness ==
    /\ sk.pc = "fill" /\ sk.i = SkBlocks /\ SkBlocks = 2 ^ (ArenaBits + 1)
    /\ \E p \in OtherPasswords :
          sk.memory[0] # FillBlock(p, sk.in.context, 0)

\* ------------------------------------------------ claims on the Compressor

\* the u64 that finalize XORed into words 12 (low half) and 13 (high half)
Injected ==
    Xor(cp.h[12], cp.state[12]) + U32Mod * Xor(cp.h[13], cp.state[13])

\* the lengths whose bit count fits a u64: below 2^61 at the source's width
FitsBits(t) == 8 * t < U64Mod

\* C23: finalize XORs rotl(total_bytes, 3) into words 12 (low 32 bits) and
\* 13 (high 32 bits); that value is 8 * total_bytes for every total_bytes
\* whose bit count fits, and no other total_bytes injects the same value
C23_LengthInjection ==
    cp.pc = "final" =>
        /\ Injected = ((cp.total * 8) % U64Mod) + ((cp.total * 8) \div U64Mod)
        /\ FitsBits(cp.total) => Injected = 8 * cp.total
        /\ \A t \in 0 .. U64Max :
              t # cp.total =>
                 \/ Xor(cp.state[12], rotl64(t, 3) % U32Mod) # cp.h[12]
                 \/ Xor(cp.state[13], rotl64(t, 3) \div U32Mod) # cp.h[13]
        /\ \A i \in WordIdx \ {0, 12, 13} : cp.h[i] = cp.state[i]

\* a length whose bit count wraps was injected into a state that is not zero
C23_Witness ==
    /\ cp.pc = "final" /\ ~FitsBits(cp.total) /\ cp.state # ZeroBlock
    /\ Injected # 0

\* only all-zero blocks were absorbed
OnlyZeroBlocks ==
    /\ Len(cp.absorbed) > 0
    /\ \A j \in 1 .. Len(cp.absorbed) : CpBlocks[cp.absorbed[j]] = ZeroBlock

\* C30: permute_block maps the all-zero block to itself, so a Compressor
\* that absorbed any number of all-zero blocks has the state of a fresh one,
\* and what finalize permutes then depends on the length alone
C30_ZeroBlockFixedPoint ==
    OnlyZeroBlocks =>
        /\ permute_block(ZeroBlock) = ZeroBlock
        /\ cp.state = CpFresh.state
        /\ cp.pc = "final" =>
              cp.h = [i \in WordIdx |->
                        IF i = 0 THEN 1
                        ELSE IF i = 12 THEN Injected % U32Mod
                        ELSE IF i = 13 THEN Injected \div U32Mod
                        ELSE 0]

\* the most all-zero blocks were absorbed and the compressor was finalized
C30_Witness ==
    /\ OnlyZeroBlocks /\ Len(cp.absorbed) = MaxBlocks /\ cp.pc = "final"
    /\ cp.total = (64 * MaxBlocks) % U64Mod

\* ------------------------------------------------ claims on the Windows form

\* C25: pressing Esc ends run_ui and the program quits without calling
\* generate_password, whichever field or button has the focus; a password is
\* generated only when Enter is pressed on the Generate button
C25_EscQuits ==
    /\ ui.esc_ignored => ui.pc # "form"
    /\ ui.closed_by = "esc" => ~ui.called
    /\ ui.called =>
          /\ ui.closed_by = "enter"
          /\ ui.fields[ui.active].button_text = "Generate"

\* ------------------------------------------- claims on the final block

====
